---- MODULE Spec2Model ----
(***************************************************************************)
(* Model of the PCI DSS requirements extractor                             *)
(* (src/pci_pdf_extractor/testv5.py, class PCIRequirementsExtractor) and   *)
(* of its batch caller (src/pci_auto_scraper.py, extract_downloaded_pdfs). *)
(*                                                                         *)
(* Text is modelled as a sequence of tokens.  A token stands for one       *)
(* whitespace-free unit of the regular expressions of the source (a word,  *)
(* a dotted number, the bullet, a marker, one boilerplate phrase); the     *)
(* string a sequence stands for is its tokens joined by single spaces; a   *)
(* run of two spaces is kept as the token "" between them (see below).     *)
(* TokLen gives the number of characters of the text a token stands for.   *)
(*                                                                         *)
(*   token            text                                                 *)
(*   "BUL"            the bullet character                                 *)
(*   "NotesApp"       Notes d'Applicabilite  (applicability_marker)        *)
(*   "Conseils"       Conseils               (guidance_marker)             *)
(*   "EnPlace"        En Place       ("Pas","EnPlace" is Pas en Place)     *)
(*   "NonApplicable"  Non Applicable                                       *)
(*   "NonTeste"       Non Teste                                            *)
(*   "SeReporter"     the cross-reference call-out "<> Se reporter"        *)
(*   "Cocher"         (Cocher une reponse)                                 *)
(*   "Page3"          Page 3                                               *)
(*   "SAQ"            SAQ D de PCI DSS v4.0.1                              *)
(*   "Copy"           (c) 2006-2024                                        *)
(*   "LLC."           LLC.                                                 *)
(*   "Droits"         Tous Droits Reserves.                                *)
(*   "NL"             a line break (only inside a raw page text)           *)
(*   "ProcessesDefined."     Processes are defined.                        *)
(*   "PoliciesDocumented."   Policies are documented.                      *)
(*   "DocumentationExists."  documentation to verify policy exists.        *)
(*   "AppliesMerchants."     Applies to all merchants.                     *)
(*   "NextRequirement."      Next requirement.                             *)
(*   ""               the empty string: two spaces in a row, as a removal  *)
(*                    by re.sub leaves them, are the token "" between them *)
(***************************************************************************)
EXTENDS Integers, Sequences, FiniteSets, TLC

VARIABLES
    pc,                 \* where the modelled call stands: "parse"/"done" for
                        \* parse_requirements, "idle" for an extractor between
                        \* calls, "loop"/"returned" for extract_downloaded_pdfs,
                        \* "compare"/"compared" for _is_higher_requirement,
                        \* "versions"/"classified"/"decided" for
                        \* compare_versions and should_download
    lines,              \* parse_requirements: lines = content.splitlines()
    i,                  \* parse_requirements: the line cursor (1-based here)
    current_req,        \* parse_requirements: the open record, NoReq for None
    requirements,       \* parse_requirements: the local output list
    ret,                \* the value the call returned
    pdf,                \* the document behind self.pdf_path
    self_requirements,  \* self.requirements of the extractor instance
    history,            \* the calls of extract_all_requirements made so far
    instances,          \* extractor instances running side by side, each with
                        \* its own locals of parse_requirements and its own
                        \* self.requirements
    downloaded_files,   \* extract_downloaded_pdfs: the batch
    file_index,         \* extract_downloaded_pdfs: position of the for loop
    csv_files,          \* the CSV files written, as their requirement numbers
    extracted_csv_files,\* self.extracted_csv_files
    arg1, arg2,         \* _is_higher_requirement: its arguments req1, req2
    higher,             \* _is_higher_requirement: its result
    documents,          \* self.documents of the change detector
    previous_data,      \* compare_versions: the rows loaded from the last run
    changes,            \* what compare_versions returned
    decision            \* what should_download returned

parseVars == <<lines, i, current_req, requirements>>
extractorVars == <<pdf, self_requirements, history, instances>>
batchVars == <<downloaded_files, file_index, csv_files, extracted_csv_files>>
changeVars == <<documents, previous_data, changes, decision>>
cmpVars == <<arg1, arg2, higher, changeVars>>
vars == <<pc, ret, parseVars, extractorVars, batchVars, cmpVars>>

\* ------------------------------------------------------------------ bounds

MaxLines == 3      \* lines of a text given to parse_requirements
MaxPages == 2      \* pages of a document after its leading empty pages
MaxRuns == 2       \* calls of extract_all_requirements on one extractor
MaxComponent == 10 \* largest component of a dotted number that is compared
MaxFiles == 3      \* documents of a batch
MaxPairLines == 2  \* lines of a text parsed by one of two instances side by side
MaxSegments == 2   \* segments (narrative, bullet spans) of a line given to the inline extractor
MaxAhead == 2      \* lines after that line
MaxTests == 2      \* tests of a record given to the finalizer
MaxDepth == 5      \* components of a number given to the sort key
MaxDocs == 2       \* documents scraped, and rows of the last run

\* ------------------------------------------------------- sequence helpers

Min(a, b) == IF a < b THEN a ELSE b
Max(a, b) == IF a > b THEN a ELSE b

\* s[a..b], empty when a > b
Slice(s, a, b) == IF a > b THEN <<>> ELSE SubSeq(s, a, b)

\* s from position a to its end
From(s, a) == Slice(s, a, Len(s))

\* does pat occur in s at position p
OccursAt(s, pat, p) ==
    /\ p >= 1
    /\ p + Len(pat) - 1 <= Len(s)
    /\ \A k \in 1..Len(pat) : s[p + k - 1] = pat[k]

StartsWith(s, pat) == OccursAt(s, pat, 1)

\* Python's "x in list"
InList(x, list) == \E k \in 1..Len(list) : list[k] = x

\* ------------------------------------------------------------- characters

TokLen(t) ==
    CASE t = "BUL" -> 1
      [] t = "z" -> 1
      [] t = "mot" -> 3
      [] t = "configuration" -> 13
      [] t = "systemes." -> 9
      [] t = "quoi?" -> 5
      [] t = "Examiner" -> 8
      [] t = "examiner" -> 8
      [] t = "Observer" -> 8
      [] t = "NotesApp" -> 21
      [] t = "Conseils" -> 8
      [] t = "EnPlace" -> 8
      [] t = "Pas" -> 3
      [] t = "avec" -> 4
      [] t = "CCW" -> 3
      [] t = "NonApplicable" -> 14
      [] t = "NonTeste" -> 9
      [] t = "SeReporter" -> 13
      [] t = "Cocher" -> 20
      [] t = "Page3" -> 6
      [] t = "SAQ" -> 23
      [] t = "Copy" -> 11
      [] t = "LLC." -> 4
      [] t = "Droits" -> 21
      [] t = "1.1" -> 3
      [] t = "1.2" -> 3
      [] t = "1.10" -> 4
      [] t = "1.1.1" -> 5
      [] t = "12.1" -> 4
      [] t = "13.1" -> 4
      [] t = "0.1" -> 3
      [] t = "7" -> 1
      [] t = "" -> 0
      [] t = "ProcessesDefined." -> 22
      [] t = "PoliciesDocumented." -> 24
      [] t = "DocumentationExists." -> 38
      [] t = "AppliesMerchants." -> 25
      [] t = "NextRequirement." -> 17
      [] OTHER -> 1

RECURSIVE SumLen(_)
SumLen(s) == IF s = <<>> THEN 0 ELSE TokLen(Head(s)) + SumLen(Tail(s))

\* Python's len() of the string s stands for
StrLen(s) == IF s = <<>> THEN 0 ELSE SumLen(s) + Len(s) - 1

\* the last character of token t is '.'
TokEndsDot(t) ==
    t \in {"systemes.", "LLC.", "Droits", "ProcessesDefined.", "PoliciesDocumented.",
           "DocumentationExists.", "AppliesMerchants.", "NextRequirement."}

\* str.endswith('.')
EndsWithDot(s) == s # <<>> /\ TokEndsDot(s[Len(s)])

\* str.endswith('.') or str.endswith('!') or str.endswith('?')
EndsSentence(s) == s # <<>> /\ (TokEndsDot(s[Len(s)]) \/ s[Len(s)] = "quoi?")

\* str.lower() of a token, for the re.IGNORECASE matches of the verbs
Lower(t) ==
    CASE t = "Examiner" -> "examiner"
      [] t = "Observer" -> "observer"
      [] t = "Interroger" -> "interroger"
      [] t = "Verifier" -> "verifier"
      [] t = "Inspecter" -> "inspecter"
      [] OTHER -> t

\* the text of token a contains, ends with, starts with the text of token b
TokContains(a, b) ==
    a = b \/ <<a, b>> \in {<<"SAQ", "0.1">>, <<"1.10", "1.1">>, <<"1.1.1", "1.1">>}
TokEndsWith(a, b) ==
    a = b \/ <<a, b>> \in {<<"SAQ", "0.1">>, <<"1.1.1", "1.1">>}
TokStartsWith(a, b) ==
    a = b \/ <<a, b>> \in {<<"1.10", "1.1">>, <<"1.1.1", "1.1">>}

\* Python's "line in current_text": pat occurs in s character-wise
IsSubstring(pat, s) ==
    LET n == Len(pat)
    IN  \/ n = 0
        \/ n = 1 /\ \E p \in 1..Len(s) : TokContains(s[p], pat[1])
        \/ n >= 2 /\ \E p \in 1..(Len(s) - n + 1) :
               /\ TokEndsWith(s[p], pat[1])
               /\ TokStartsWith(s[p + n - 1], pat[n])
               /\ \A k \in 2..(n - 1) : s[p + k - 1] = pat[k]

\* ------------------------------------------------------ dotted numbers

\* the decimal digits of the components of a dotted number token:
\* req_num.split('.'), each component as its digit string
Components(t) ==
    CASE t = "1.1" -> << <<1>>, <<1>> >>
      [] t = "1.2" -> << <<1>>, <<2>> >>
      [] t = "1.10" -> << <<1>>, <<1, 0>> >>
      [] t = "1.1.1" -> << <<1>>, <<1>>, <<1>> >>
      [] t = "12.1" -> << <<1, 2>>, <<1>> >>
      [] t = "13.1" -> << <<1, 3>>, <<1>> >>
      [] t = "0.1" -> << <<0>>, <<1>> >>
      [] t = "7" -> << <<7>> >>
      [] OTHER -> <<>>

\* int(x) of a digit string
RECURSIVE ToInt(_)
ToInt(digits) ==
    IF digits = <<>> THEN 0
    ELSE 10 * ToInt(SubSeq(digits, 1, Len(digits) - 1)) + digits[Len(digits)]

\* [int(x) for x in req.split('.')]
IntParts(t) == [k \in 1..Len(Components(t)) |-> ToInt(Components(t)[k])]

\* ------------------------------------------------------------- whitespace

IsSpace(t) == t \in {"", "NL"}

\* re.sub('\s+', ' ', text).strip()
Collapse(s) == SelectSeq(s, LAMBDA t : ~IsSpace(t))

\* str.strip()
RECURSIVE LStrip(_)
LStrip(s) == IF s # <<>> /\ IsSpace(Head(s)) THEN LStrip(Tail(s)) ELSE s

RECURSIVE RStrip(_)
RStrip(s) ==
    IF s # <<>> /\ IsSpace(s[Len(s)]) THEN RStrip(SubSeq(s, 1, Len(s) - 1)) ELSE s

Strip(s) == RStrip(LStrip(s))

\* ------------------------------------------------------ program constants

MinMain == 1
MaxMain == 12
SignificantLen == 10
CompleteLen == 30
ShortLineLen == 2
MinTextLen == 3

\* self.test_indicators without the leading bullet and space (indicator[2:])
test_verbs == <<"Examiner", "Observer", "Interroger", "Verifier", "Inspecter">>

applicability_marker == "NotesApp"
guidance_marker == "Conseils"

\* ------------------------------------------------------ line predicates

\* is_requirement_number without "if 1 <= main_num <= 12" (a variant the range
\* property must tell from the code)
is_requirement_number_unchecked(line) ==
    IF Len(line) >= 2 /\ Len(Components(line[1])) >= 2 THEN line[1] ELSE ""

\* is_requirement_number: the number the line starts with, "" when there is
\* none.  The pattern wants the dotted number (at least two components)
\* followed by whitespace, so by at least one more token of the stripped line.
is_requirement_number(line) ==
    IF /\ Len(line) >= 2
       /\ Len(Components(line[1])) >= 2
       /\ MinMain <= IntParts(line[1])[1]
       /\ IntParts(line[1])[1] <= MaxMain
    THEN line[1]
    ELSE ""

\* is_test_line: the line starts with one of the indicators (case-sensitive)
is_test_line(line) ==
    /\ Len(line) >= 2
    /\ line[1] = "BUL"
    /\ \E k \in 1..Len(test_verbs) : line[2] = test_verbs[k]

\* extract_requirement_text: the line without its number and the whitespace
\* after it
extract_requirement_text(line, req_num) ==
    IF line # <<>> /\ line[1] = req_num THEN LStrip(Tail(line)) ELSE line

\* _should_ignore_line: an ignore pattern matches at the start of the line,
\* or the line has at most two characters
_should_ignore_line(line) ==
    \/ /\ line # <<>>
       /\ line[1] \in {"SAQ", "Copy", "Page3", "EnPlace", "NonApplicable",
                       "NonTeste", "SeReporter", "Cocher", "Droits", "LLC."}
    \/ StartsWith(line, <<"Pas", "EnPlace">>)
    \/ StrLen(line) <= ShortLineLen

\* a continuation loop that stops at numbers, test lines and ignored lines only
StopsCaptureWithoutMarkers(kind, next_line) ==
    \/ is_requirement_number(next_line) # ""
    \/ is_test_line(next_line)
    \/ _should_ignore_line(next_line)

\* a continuation loop that runs over requirement-number lines
StopsCaptureWithoutNumbers(kind, next_line) ==
    \/ is_test_line(next_line)
    \/ (kind # "applicability" /\ StartsWith(next_line, <<applicability_marker>>))
    \/ (kind # "guidance" /\ StartsWith(next_line, <<guidance_marker>>))
    \/ _should_ignore_line(next_line)

\* one stop rule for all three loops: either marker stops every capture
StopsCaptureAtAnyMarker(kind, next_line) ==
    \/ is_requirement_number(next_line) # ""
    \/ is_test_line(next_line)
    \/ StartsWith(next_line, <<applicability_marker>>)
    \/ StartsWith(next_line, <<guidance_marker>>)
    \/ _should_ignore_line(next_line)

\* the stop conditions of the three continuation loops
StopsCapture(kind, next_line) ==
    \/ is_requirement_number(next_line) # ""
    \/ is_test_line(next_line)
    \/ (kind # "applicability" /\ StartsWith(next_line, <<applicability_marker>>))
    \/ (kind # "guidance" /\ StartsWith(next_line, <<guidance_marker>>))
    \/ _should_ignore_line(next_line)

\* ---------------------------------------------- removal of boilerplate
\* A removal by re.sub(pattern, '', text) leaves the token "" where the match
\* was: the spaces on both sides of the match stay.

\* smallest element of a non-empty set of positions, 0 for the empty set
MinPos(S) == IF S = {} THEN 0 ELSE CHOOSE p \in S : \A q \in S : p <= q

\* A pattern is a sequence of [tok, ws]: ws says whether the separator before
\* the token is \s+ (any whitespace) or one literal space.
Lit(t) == [tok |-> t, ws |-> FALSE]
Ws(t) == [tok |-> t, ws |-> TRUE]

\* position of the last token of the match of pat[k..] that starts at p,
\* 0 when there is no match
RECURSIVE MatchPattern(_, _, _, _)
MatchPattern(s, p, pat, k) ==
    IF k > Len(pat) THEN p - 1
    ELSE IF p > Len(s) THEN 0
    ELSE IF k > 1 /\ pat[k].ws /\ IsSpace(s[p]) THEN MatchPattern(s, p + 1, pat, k)
    ELSE IF s[p] = pat[k].tok THEN MatchPattern(s, p + 1, pat, k + 1)
    ELSE 0

\* re.sub(pat, '', s): every match removed, scanning left to right
RECURSIVE RemoveAll(_, _)
RemoveAll(s, pat) ==
    IF s = <<>> THEN <<>>
    ELSE LET e == MatchPattern(s, 1, pat, 1)
         IN  IF e > 0 THEN <<"">> \o RemoveAll(From(s, e + 1), pat)
             ELSE <<Head(s)>> \o RemoveAll(Tail(s), pat)

\* position of the last token of the line that holds position p
LineEnd(s, p) ==
    LET nl == MinPos({q \in p..Len(s) : s[q] = "NL"})
    IN  IF nl = 0 THEN Len(s) ELSE nl - 1

\* s with positions p..e removed (p = 0: s unchanged)
Remove(s, p, e) == IF p = 0 THEN s ELSE Slice(s, 1, p - 1) \o <<"">> \o From(s, e + 1)

\* first position of token a that has token b after it on its line, 0 if none
FirstBefore(s, a, b) ==
    MinPos({p \in 1..Len(s) : s[p] = a /\ \E q \in (p + 1)..LineEnd(s, p) : s[q] = b})

\* first position at which pat matches, 0 if none
FirstMatch(s, pat) == MinPos({p \in 1..Len(s) : MatchPattern(s, p, pat, 1) > 0})

\* re.sub of a pattern that ends in ".*": the first match is removed with
\* the rest of its line
RECURSIVE CutLines(_, _)
CutLines(s, pat) ==
    LET p == FirstMatch(s, pat)
    IN  IF p = 0 THEN s
        ELSE Slice(s, 1, p - 1) \o <<"">> \o CutLines(From(s, LineEnd(s, p) + 1), pat)

PasEnPlace == <<Lit("Pas"), Lit("EnPlace")>>

\* the En Place at p has a Pas en Place after it on its line: the position
\* of that Pas, 0 if none
PasAfter(s, p) ==
    IF s[p] # "EnPlace" THEN 0
    ELSE MinPos({q \in (p + 1)..LineEnd(s, p) : MatchPattern(s, q, PasEnPlace, 1) > 0})

\* re.sub('En Place.*?Pas en Place', ''): each leftmost En Place that has a
\* Pas en Place after it is removed with everything up to the nearest one
RECURSIVE RemoveEnPlaceToPas(_)
RemoveEnPlaceToPas(s) ==
    LET p == MinPos({x \in 1..Len(s) : PasAfter(s, x) > 0})
    IN  IF p = 0 THEN s
        ELSE Slice(s, 1, p - 1) \o <<"">>
                 \o RemoveEnPlaceToPas(From(s, PasAfter(s, p) + 2))

\* re.sub('En Place.*?Pas en Place.*?(?=\n|$)', ''): from the leftmost
\* En Place that has a Pas en Place after it to the end of the line
RECURSIVE CutEnPlaceToPas(_)
CutEnPlaceToPas(s) ==
    LET p == MinPos({x \in 1..Len(s) : PasAfter(s, x) > 0})
    IN  IF p = 0 THEN s
        ELSE Slice(s, 1, p - 1) \o <<"">> \o CutEnPlaceToPas(From(s, LineEnd(s, p) + 1))

\* number of tokens of the compliance-status term at position p, 0 if none:
\* (En Place|Pas en Place|Non Applicable|Non Teste|CCW)
StatusTermLen(s, p) ==
    IF p > Len(s) THEN 0
    ELSE IF s[p] \in {"EnPlace", "NonApplicable", "NonTeste", "CCW"} THEN 1
    ELSE IF MatchPattern(s, p, PasEnPlace, 1) > 0 THEN 2
    ELSE 0

\* first position after p that holds no whitespace token
RECURSIVE SkipSpace(_, _)
SkipSpace(s, p) == IF p <= Len(s) /\ IsSpace(s[p]) THEN SkipSpace(s, p + 1) ELSE p

\* the run of status terms separated by whitespace that starts at p:
\* [last: position of its last token, terms: number of its terms]
RECURSIVE StatusRun(_, _)
StatusRun(s, p) ==
    LET n == StatusTermLen(s, p)
    IN  IF n = 0 THEN [last |-> 0, terms |-> 0]
        ELSE LET rest == StatusRun(s, SkipSpace(s, p + n))
             IN  IF rest.terms = 0 THEN [last |-> p + n - 1, terms |-> 1]
                 ELSE [last |-> rest.last, terms |-> 1 + rest.terms]

\* re.sub of the status-run pattern: every maximal run of at least minTerms
\* status terms is removed
RECURSIVE RemoveStatusRuns(_, _), RemoveRunAtHead(_, _, _)
RemoveStatusRuns(s, minTerms) ==
    IF s = <<>> THEN <<>> ELSE RemoveRunAtHead(s, minTerms, StatusRun(s, 1))

\* the step of RemoveStatusRuns at the head of s, where the run `run` starts
RemoveRunAtHead(s, minTerms, run) ==
    IF run.terms >= minTerms /\ run.terms >= 1
    THEN <<"">> \o RemoveStatusRuns(From(s, run.last + 1), minTerms)
    ELSE <<Head(s)>> \o RemoveStatusRuns(Tail(s), minTerms)

\* En Place\s+En Place avec CCW\s+Non Applicable\s+Non Teste\s+Pas en Place
FullAnswerHeader ==
    <<Lit("EnPlace"), Ws("EnPlace"), Lit("avec"), Lit("CCW"), Ws("NonApplicable"),
      Ws("NonTeste"), Ws("Pas"), Lit("EnPlace")>>
\* avec CCW\s+Non Applicable\s+Non Teste\s+Pas en Place
PartialAnswerHeader ==
    <<Lit("avec"), Lit("CCW"), Ws("NonApplicable"), Ws("NonTeste"), Ws("Pas"),
      Lit("EnPlace")>>
\* avec CCW Non Applicable Non Teste Pas
AnswerFragment ==
    <<Lit("avec"), Lit("CCW"), Lit("NonApplicable"), Lit("NonTeste"), Lit("Pas")>>

\* s cut from position p to its end (p = 0: nothing cut)
CutAt(s, p) == IF p = 0 THEN s ELSE Slice(s, 1, p - 1)

\* re.sub('a.*?b.*', '', s): s cut from the first a that has b after it
CutFrom(s, a, b) == CutAt(s, FirstBefore(s, a, b))

\* _clean_test_text
_clean_test_text(text) ==
    LET t1 == CutFrom(text, "SAQ", "Page3")
        t2 == CutFrom(t1, "Copy", "LLC.")
        t3 == RemoveEnPlaceToPas(t2)
        t4 == CutLines(t3, <<Lit("SeReporter")>>)
        t5 == CutLines(t4, AnswerFragment)
        t6 == RemoveAll(t5, FullAnswerHeader)
        t7 == RemoveStatusRuns(t6, 1)
    IN  Collapse(t7)

\* _clean_guidance_text
_clean_guidance_text(text) ==
    LET t1 == CutFrom(text, "SAQ", "Page3")
        t2 == CutFrom(t1, "Copy", "LLC.")
        t3 == RemoveEnPlaceToPas(t2)
    IN  Collapse(t3)

\* _remove_response_artifacts: the seven patterns, each applied once, in order
_remove_response_artifacts(text) ==
    LET t1 == CutLines(text, AnswerFragment)
        t2 == RemoveAll(t1, FullAnswerHeader)
        t3 == RemoveAll(t2, PartialAnswerHeader)
        t4 == CutEnPlaceToPas(t3)
        t5 == RemoveStatusRuns(t4, 2)
        t6 == CutLines(t5, <<Lit("SeReporter")>>)
        t7 == RemoveAll(t6, <<Lit("Cocher")>>)
    IN  Collapse(t7)

\* ------------------------------------------------- inline test extraction

\* the open record when there is none (current_req = None)
NoReq == [req_num |-> "", text |-> <<>>, tests |-> <<>>, guidance |-> <<>>]

\* re.finditer of the pattern bullet, optional space, verb, [^bullet]* :
\* the positions of the bullets directly followed by the verb (any case)
MatchStarts(remaining, verb) ==
    {p \in 1..(Len(remaining) - 1) :
        /\ remaining[p] = "BUL"
        /\ SkipSpace(remaining, p + 1) <= Len(remaining)
        /\ Lower(remaining[SkipSpace(remaining, p + 1)]) = Lower(verb)}

\* last position of the match that starts at p: up to the next bullet
MatchEnd(remaining, p) ==
    LET nb == MinPos({q \in (p + 1)..Len(remaining) : remaining[q] = "BUL"})
    IN  IF nb = 0 THEN Len(remaining) ELSE nb - 1

\* the look-ahead loop of _extract_tests_from_text_line_multiline, from
\* line j on: [text: the extended test, processed: the last line absorbed]
RECURSIVE ExtendTest(_, _, _, _)
ExtendTest(all_lines, j, test_text, processed) ==
    IF j > Len(all_lines) THEN [text |-> test_text, processed |-> processed]
    ELSE LET next_line == Strip(all_lines[j])
         IN  IF next_line = <<>>
             THEN ExtendTest(all_lines, j + 1, test_text, processed)
             ELSE IF StopsCapture("test", next_line)
             THEN [text |-> test_text, processed |-> processed]
             ELSE IF EndsSentence(next_line)
             THEN [text |-> test_text \o next_line, processed |-> j]
             ELSE ExtendTest(all_lines, j + 1, test_text \o next_line, j)

\* "if len(test_text) < 30 or not test_text.endswith('.')": the test after
\* the look-ahead, [text, processed]
ExtendedTest(st, test_text, all_lines, current_index, multiline) ==
    IF multiline /\ (StrLen(test_text) < CompleteLen \/ ~EndsWithDot(test_text))
    THEN ExtendTest(all_lines, current_index + 1, test_text, st.processed)
    ELSE [text |-> test_text, processed |-> st.processed]

\* "if test_text and len(test_text) > 10": the cleaned test is recorded and
\* its span p..q removed from the text
RecordTest(st, p, q, cleaned, processed) ==
    IF cleaned # <<>> /\ StrLen(cleaned) > SignificantLen
    THEN [remaining |-> Remove(st.remaining, p, q),
          tests |-> IF InList(cleaned, st.tests) THEN st.tests
                    ELSE Append(st.tests, cleaned),
          processed |-> processed]
    ELSE [st EXCEPT !.processed = processed]

CleanAndRecord(st, p, q, ext) ==
    RecordTest(st, p, q, _clean_test_text(ext.text), ext.processed)

MatchSpan(st, p, q, all_lines, current_index, multiline) ==
    CleanAndRecord(st, p, q,
        ExtendedTest(st, Strip(Slice(st.remaining, p + 1, q)),
                     all_lines, current_index, multiline))

\* one match, the body of "for match in reversed(matches)".
\* st = [remaining, tests, processed]; multiline selects the look-ahead.
ProcessMatch(st, p, all_lines, current_index, multiline) ==
    MatchSpan(st, p, MatchEnd(st.remaining, p), all_lines, current_index, multiline)

\* the matches of one indicator, rightmost first
RECURSIVE ProcessMatches(_, _, _, _, _)
ProcessMatches(st, starts, all_lines, current_index, multiline) ==
    IF starts = {} THEN st
    ELSE LET p == CHOOSE x \in starts : \A y \in starts : x >= y
         IN  ProcessMatches(ProcessMatch(st, p, all_lines, current_index, multiline),
                            starts \ {p}, all_lines, current_index, multiline)

\* "for indicator in self.test_indicators", from indicator k on
RECURSIVE ProcessIndicators(_, _, _, _, _)
ProcessIndicators(st, k, all_lines, current_index, multiline) ==
    IF k > Len(test_verbs) THEN st
    ELSE ProcessIndicators(
             ProcessMatches(st, MatchStarts(st.remaining, test_verbs[k]),
                            all_lines, current_index, multiline),
             k + 1, all_lines, current_index, multiline)

\* _extract_tests_from_text_line_multiline:
\* [remaining: the text left, tests: the record's tests, processed: the index returned]
_extract_tests_from_text_line_multiline(line, tests, all_lines, current_index) ==
    LET st == ProcessIndicators(
                  [remaining |-> line, tests |-> tests, processed |-> current_index],
                  1, all_lines, current_index, TRUE)
    IN  [st EXCEPT !.remaining = Collapse(@)]

\* _extract_tests_from_text_line: [remaining, tests, processed (unused)]
_extract_tests_from_text_line(line, tests) ==
    LET st == ProcessIndicators([remaining |-> line, tests |-> tests, processed |-> 0],
                                1, <<>>, 0, FALSE)
    IN  [st EXCEPT !.remaining = Collapse(@)]

\* _is_valid_text_line
_is_valid_text_line(line, current_text) ==
    /\ ~IsSubstring(line, current_text)
    /\ ~(StrLen(line) < MinTextLen)

\* ------------------------------------------------------------ finalization

\* a variant of KeepTest that puts the entry in front
KeepTestInFront(cleaned_tests, test_clean) ==
    IF /\ test_clean # <<>>
       /\ ~InList(test_clean, cleaned_tests)
       /\ StrLen(test_clean) > SignificantLen
    THEN <<test_clean>> \o cleaned_tests
    ELSE cleaned_tests

\* the loop over req['tests'] of _finalize_requirement, from entry k on
\* "if test_clean and test_clean not in cleaned_tests and len(test_clean) > 10"
KeepTest(cleaned_tests, test_clean) ==
    IF /\ test_clean # <<>>
       /\ ~InList(test_clean, cleaned_tests)
       /\ StrLen(test_clean) > SignificantLen
    THEN Append(cleaned_tests, test_clean)
    ELSE cleaned_tests

RECURSIVE CleanTests(_, _, _)
CleanTests(tests, k, cleaned_tests) ==
    IF k > Len(tests) THEN cleaned_tests
    ELSE CleanTests(tests, k + 1,
                    KeepTest(cleaned_tests, _remove_response_artifacts(tests[k])))

\* _finalize_requirement: the record as it is left
\* ex is what the residual extraction on req['text'] returned
FinalizeAfterExtraction(req, ex) ==
    [req_num |-> req.req_num,
     text |-> _remove_response_artifacts(ex.remaining),
     tests |-> CleanTests(ex.tests, 1, <<>>),
     guidance |-> _remove_response_artifacts(req.guidance)]

_finalize_requirement(req) ==
    FinalizeAfterExtraction(req, _extract_tests_from_text_line(req.text, req.tests))

\* variants of AppendIfNew that the uniqueness and the order properties must
\* tell from the code: an append without the test, an insertion in front
AppendAlways(reqs, req) == Append(reqs, req)

PrependIfNew(reqs, req) ==
    IF \E k \in 1..Len(reqs) : reqs[k].req_num = req.req_num
    THEN reqs
    ELSE <<req>> \o reqs

\* a later record put in the place of the stored record of its number
ReplaceOrAppend(reqs, req) ==
    IF \E k \in 1..Len(reqs) : reqs[k].req_num = req.req_num
    THEN [k \in 1..Len(reqs) |-> IF reqs[k].req_num = req.req_num THEN req ELSE reqs[k]]
    ELSE Append(reqs, req)

\* "if not any(req['req_num'] == current_req['req_num'] ...): append"
AppendIfNew(reqs, req) ==
    IF \E k \in 1..Len(reqs) : reqs[k].req_num = req.req_num
    THEN reqs
    ELSE Append(reqs, req)

\* closing the open record: finalize it and append it unless its number is there
CloseRequirement(reqs, req) ==
    IF req = NoReq THEN reqs ELSE AppendIfNew(reqs, _finalize_requirement(req))

\* ------------------------------------------------------- capture loops

\* the continuation loop of test capture and of guidance capture, from line
\* j on: [text: what was accumulated, j: the line the loop stopped at]
RECURSIVE Capture(_, _, _, _)
Capture(ls, j, text, kind) ==
    IF j > Len(ls) THEN [text |-> text, j |-> j]
    ELSE LET next_line == Strip(ls[j])
         IN  IF next_line = <<>> THEN Capture(ls, j + 1, text, kind)
             ELSE IF StopsCapture(kind, next_line) THEN [text |-> text, j |-> j]
             ELSE Capture(ls, j + 1, text \o next_line, kind)

\* ------------------------------------------- parse_requirements, one line

\* the classification without the case of the guidance marker
LineClassWithoutGuidance(ls, idx, cur) ==
    LET line == Strip(ls[idx])
    IN  IF line = <<>> THEN "blank"
        ELSE IF is_requirement_number(line) # "" THEN "requirement"
        ELSE IF cur = NoReq THEN "no_requirement"
        ELSE IF is_test_line(line) THEN "test"
        ELSE IF StartsWith(line, <<applicability_marker>>) THEN "applicability"
        ELSE IF _should_ignore_line(line) THEN "ignored"
        ELSE "text"

\* which branch of the loop body of parse_requirements line ls[idx] takes
LineClass(ls, idx, cur) ==
    LET line == Strip(ls[idx])
    IN  IF line = <<>> THEN "blank"
        ELSE IF is_requirement_number(line) # "" THEN "requirement"
        ELSE IF cur = NoReq THEN "no_requirement"
        ELSE IF is_test_line(line) THEN "test"
        ELSE IF StartsWith(line, <<applicability_marker>>) THEN "applicability"
        ELSE IF StartsWith(line, <<guidance_marker>>) THEN "guidance"
        ELSE IF _should_ignore_line(line) THEN "ignored"
        ELSE "text"

\* a requirement-number line that opens the new record and lets the open one go
OpenWithoutClosing(idx, cur, reqs, line, req_num) ==
    [i |-> idx + 1,
     current_req |-> [req_num |-> req_num,
                      text |-> extract_requirement_text(line, req_num),
                      tests |-> <<>>,
                      guidance |-> <<>>],
     requirements |-> reqs]

\* a requirement-number line: close the open record, open a new one
OpenRequirement(idx, cur, reqs, line, req_num) ==
    [i |-> idx + 1,
     current_req |-> [req_num |-> req_num,
                      text |-> extract_requirement_text(line, req_num),
                      tests |-> <<>>,
                      guidance |-> <<>>],
     requirements |-> CloseRequirement(reqs, cur)]

OnRequirementLine(ls, idx, cur, reqs) ==
    OpenRequirement(idx, cur, reqs, Strip(ls[idx]), is_requirement_number(Strip(ls[idx])))

\* the captured test stored whatever its length
AddCapturedTestAlways(cur, reqs, j, test_text) ==
    [i |-> j,
     current_req |-> [cur EXCEPT !.tests = Append(@, test_text)],
     requirements |-> reqs]

\* a test line: capture it with its continuation lines
AddCapturedTest(cur, reqs, j, test_text) ==
    [i |-> j,
     current_req |-> IF test_text # <<>> /\ StrLen(test_text) > SignificantLen
                     THEN [cur EXCEPT !.tests = Append(@, test_text)]
                     ELSE cur,
     requirements |-> reqs]

AfterTestCapture(cur, reqs, cap) ==
    AddCapturedTest(cur, reqs, cap.j, _clean_test_text(cap.text))

OnTestLine(ls, idx, cur, reqs) ==
    AfterTestCapture(cur, reqs, Capture(ls, idx + 1, Strip(Tail(Strip(ls[idx]))), "test"))

\* a capture that is added to the guidance the record has
AppendToGuidance(cur, reqs, cap) ==
    [i |-> cap.j,
     current_req |-> [cur EXCEPT !.guidance = @ \o _clean_guidance_text(cap.text)],
     requirements |-> reqs]

\* an applicability-notes line or a guidance line: capture into guidance
AfterGuidanceCapture(cur, reqs, cap) ==
    [i |-> cap.j,
     current_req |-> [cur EXCEPT !.guidance = _clean_guidance_text(cap.text)],
     requirements |-> reqs]

OnGuidanceLine(ls, idx, cur, reqs, kind) ==
    AfterGuidanceCapture(cur, reqs, Capture(ls, idx + 1, Strip(Tail(Strip(ls[idx]))), kind))

\* a variant of AfterInlineExtraction that leaves the cursor where the inline
\* extraction stopped, also when it consumed no line
AfterInlineExtractionStaying(idx, cur, reqs, ex) ==
    [i |-> ex.processed,
     current_req |->
         IF ex.processed = idx /\ ex.remaining # <<>> /\ _is_valid_text_line(ex.remaining, cur.text)
         THEN [cur EXCEPT !.tests = ex.tests, !.text = @ \o ex.remaining]
         ELSE [cur EXCEPT !.tests = ex.tests],
     requirements |-> reqs]

\* a line of the requirement's text; ex is what the inline extraction returned
AfterInlineExtraction(idx, cur, reqs, ex) ==
    IF ex.processed > idx
    THEN [i |-> ex.processed,
          current_req |-> [cur EXCEPT !.tests = ex.tests],
          requirements |-> reqs]
    ELSE [i |-> idx + 1,
          current_req |->
              IF ex.remaining # <<>> /\ _is_valid_text_line(ex.remaining, cur.text)
              THEN [cur EXCEPT !.tests = ex.tests, !.text = @ \o ex.remaining]
              ELSE [cur EXCEPT !.tests = ex.tests],
          requirements |-> reqs]

OnTextLine(ls, idx, cur, reqs) ==
    AfterInlineExtraction(idx, cur, reqs,
        _extract_tests_from_text_line_multiline(Strip(ls[idx]), cur.tests, ls, idx))

\* a line that changes nothing but the cursor
OnSkippedLine(ls, idx, cur, reqs) ==
    [i |-> idx + 1, current_req |-> cur, requirements |-> reqs]

\* the branch of class c taken on line ls[idx]
Branch(c, ls, idx, cur, reqs) ==
    CASE c = "requirement" -> OnRequirementLine(ls, idx, cur, reqs)
      [] c = "test" -> OnTestLine(ls, idx, cur, reqs)
      [] c = "applicability" -> OnGuidanceLine(ls, idx, cur, reqs, "applicability")
      [] c = "guidance" -> OnGuidanceLine(ls, idx, cur, reqs, "guidance")
      [] c = "text" -> OnTextLine(ls, idx, cur, reqs)
      [] OTHER -> OnSkippedLine(ls, idx, cur, reqs)

\* one iteration of "while i < len(lines)"
ParseLine(ls, idx, cur, reqs) == Branch(LineClass(ls, idx, cur), ls, idx, cur, reqs)

\* parse_requirements from the state (idx, cur, reqs) to its return value
RECURSIVE ParseFrom(_, _, _, _), ParseOn(_, _)
ParseFrom(ls, idx, cur, reqs) ==
    IF idx > Len(ls) THEN CloseRequirement(reqs, cur)
    ELSE ParseOn(ls, ParseLine(ls, idx, cur, reqs))

\* the loop goes on from the state n an iteration left
ParseOn(ls, n) == ParseFrom(ls, n.i, n.current_req, n.requirements)

\* parse_requirements(content)
parse_requirements(ls) == ParseFrom(ls, 1, NoReq, <<>>)

\* --------------------------------------------------- hierarchical order

\* Python's list comparison a > b for lists of equal length
RECURSIVE ListGreater(_, _)
ListGreater(a, b) ==
    IF a = <<>> \/ b = <<>> THEN Len(a) > Len(b)
    ELSE IF Head(a) # Head(b) THEN Head(a) > Head(b)
    ELSE ListGreater(Tail(a), Tail(b))

\* parts.extend([0] * (max_len - len(parts)))
PadZeros(parts, max_len) ==
    [k \in 1..Max(max_len, Len(parts)) |-> IF k <= Len(parts) THEN parts[k] ELSE 0]

\* _is_higher_requirement without int(x): the components compared as the
\* strings split('.') yields (a variant the order property must tell from
\* the code)
RECURSIVE TextListGreater(_, _)
TextListGreater(a, b) ==
    IF a = <<>> \/ b = <<>> THEN Len(a) > Len(b)
    ELSE IF Head(a) # Head(b) THEN ListGreater(Head(a), Head(b))
    ELSE TextListGreater(Tail(a), Tail(b))

_is_higher_requirement_text(req1, req2) ==
    IF req2 = <<>> THEN TRUE ELSE TextListGreater(req1, req2)

\* _is_higher_requirement on two dotted numbers given by their components
\* (req2 = <<>> is the empty string)
_is_higher_requirement(req1, req2) ==
    IF req2 = <<>> THEN TRUE
    ELSE LET parts1 == [k \in 1..Len(req1) |-> ToInt(req1[k])]
             parts2 == [k \in 1..Len(req2) |-> ToInt(req2[k])]
             max_len == Max(Len(parts1), Len(parts2))
         IN  ListGreater(PadZeros(parts1, max_len), PadZeros(parts2, max_len))

\* ------------------------------------------------------------ the document

\* A document is [lead, pages]: lead empty pages followed by the pages of
\* `pages`, each page the sequence of its lines.  Page indices start at 0.
NumPages(doc) == doc.lead + Len(doc.pages)

PageLines(doc, page_num) ==
    IF page_num < doc.lead THEN <<>> ELSE doc.pages[page_num - doc.lead + 1]

\* How reading fails: [kind, page] with kind "none", "open" (open() or
\* PdfReader raises) or "page" (extract_text() of that page raises).
NoFailure == [kind |-> "none", page |-> 0]
OpenFails == [kind |-> "open", page |-> 0]
PageFails(p) == [kind |-> "page", page |-> p]

FailsAtPage(fail, page_num) == fail.kind = "page" /\ fail.page = page_num

StartFallback == 15
EndFallback == 128
EndWindow == 100

\* the anchor searched without the "^" of the pattern: anywhere in a line
HasAnchorAnywhere(page) ==
    \E k \in 1..Len(page) : \E p \in 1..Len(page[k]) :
        /\ page[k][p] = "1.1.1"
        /\ (p < Len(page[k]) \/ k < Len(page))

\* re.search('^1\.1\.1\s+', page_text, re.MULTILINE): a line that is the
\* anchor followed by whitespace (a further token, or the line break)
HasStartAnchor(page) ==
    \E k \in 1..Len(page) :
        /\ page[k] # <<>>
        /\ page[k][1] = "1.1.1"
        /\ (Len(page[k]) >= 2 \/ k < Len(page))

\* find_start_page, scanning from page_num
RECURSIVE FindStartFrom(_, _, _)
FindStartFrom(doc, fail, page_num) ==
    IF page_num >= NumPages(doc) THEN StartFallback
    ELSE IF FailsAtPage(fail, page_num) THEN StartFallback
    ELSE IF HasStartAnchor(PageLines(doc, page_num)) THEN page_num
    ELSE FindStartFrom(doc, fail, page_num + 1)

find_start_page(doc, fail) ==
    IF fail.kind = "open" THEN StartFallback ELSE FindStartFrom(doc, fail, 0)

\* re.findall of the numbering pattern on a page: the numbers that start a
\* line and are followed by whitespace, in order
RECURSIVE PageMatches(_, _)
PageMatches(page, k) ==
    IF k > Len(page) THEN <<>>
    ELSE IF /\ page[k] # <<>>
            /\ Len(Components(page[k][1])) >= 2
            /\ (Len(page[k]) >= 2 \/ k < Len(page))
         THEN <<page[k][1]>> \o PageMatches(page, k + 1)
         ELSE PageMatches(page, k + 1)

\* the scan of the matches without the test "1 <= main_num <= 12"
RECURSIVE ScanMatchesAnyMain(_, _, _, _)
ScanMatchesAnyMain(matches, k, page_num, best) ==
    IF k > Len(matches) THEN best
    ELSE ScanMatchesAnyMain(matches, k + 1, page_num,
             IF _is_higher_requirement(Components(matches[k]), Components(best.highest))
             THEN [highest |-> matches[k], end_page |-> page_num]
             ELSE best)

\* "for match in matches": [highest, end_page] after the matches from k on
RECURSIVE ScanMatches(_, _, _, _)
ScanMatches(matches, k, page_num, best) ==
    IF k > Len(matches) THEN best
    ELSE LET main_num == IntParts(matches[k])[1]
             better == /\ MinMain <= main_num
                       /\ main_num <= MaxMain
                       /\ _is_higher_requirement(Components(matches[k]),
                                                 Components(best.highest))
         IN  ScanMatches(matches, k + 1, page_num,
                 IF better THEN [highest |-> matches[k], end_page |-> page_num]
                 ELSE best)

\* find_end_page, scanning from page_num; "raised" when a page cannot be read
RECURSIVE FindEndFrom(_, _, _, _)
FindEndFrom(doc, fail, page_num, best) ==
    IF page_num >= NumPages(doc) THEN best
    ELSE IF FailsAtPage(fail, page_num) THEN [highest |-> "raised", end_page |-> 0]
    ELSE FindEndFrom(doc, fail, page_num + 1,
             ScanMatches(PageMatches(PageLines(doc, page_num), 1), 1, page_num, best))

find_end_page(doc, fail) ==
    IF fail.kind = "open" THEN EndFallback
    ELSE LET best == FindEndFrom(doc, fail, 0,
                         [highest |-> "", end_page |-> NumPages(doc) - 1])
         IN  IF best.highest \in {"", "raised"} THEN EndFallback ELSE best.end_page

\* the text of one page: its lines joined by line breaks
RECURSIVE JoinLines(_)
JoinLines(ls) ==
    IF ls = <<>> THEN <<>>
    ELSE IF Len(ls) = 1 THEN ls[1]
    ELSE ls[1] \o <<"NL">> \o JoinLines(Tail(ls))

\* ReadPages without the effect of the exception: the text read before the
\* page that cannot be read is kept (a variant the failure property must
\* tell from the code)
RECURSIVE ReadPagesPartial(_, _, _, _, _)
ReadPagesPartial(doc, fail, page_num, end_page, text) ==
    IF page_num > end_page THEN [ok |-> TRUE, text |-> text]
    ELSE IF page_num >= NumPages(doc) THEN [ok |-> TRUE, text |-> text]
    ELSE IF FailsAtPage(fail, page_num) THEN [ok |-> FALSE, text |-> text]
    ELSE ReadPagesPartial(doc, fail, page_num + 1, end_page,
                          text \o JoinLines(PageLines(doc, page_num)) \o <<"NL">>)

\* the loop "for page_num in range(start_page, end_page + 1)":
\* [ok, text]; ok is FALSE when a page of the range cannot be read
RECURSIVE ReadPages(_, _, _, _, _)
ReadPages(doc, fail, page_num, end_page, text) ==
    IF page_num > end_page THEN [ok |-> TRUE, text |-> text]
    ELSE IF page_num >= NumPages(doc) THEN [ok |-> TRUE, text |-> text]
    ELSE IF FailsAtPage(fail, page_num) THEN [ok |-> FALSE, text |-> <<>>]
    ELSE ReadPages(doc, fail, page_num + 1, end_page,
                   text \o JoinLines(PageLines(doc, page_num)) \o <<"NL">>)

\* AdjustRange without the correction of an end page at or before the start
AdjustRangeKeepingEnd(doc, start_page, end_page) ==
    [start_page |-> start_page, end_page |-> end_page]

\* the page range read_pdf_content settles on: [start_page, end_page]
AdjustRange(doc, start_page, end_page) ==
    [start_page |-> start_page,
     end_page |-> IF end_page <= start_page
                  THEN Min(NumPages(doc) - 1, start_page + EndWindow)
                  ELSE end_page]

PageRange(doc, fail) ==
    AdjustRange(doc, find_start_page(doc, fail), find_end_page(doc, fail))

\* read_pdf_content: the raw text, <<>> for "" (also after an exception)
ReadRange(doc, fail, range) ==
    ReadPages(doc, fail, range.start_page, range.end_page, <<>>).text

read_pdf_content(doc, fail) ==
    IF fail.kind = "open" THEN <<>> ELSE ReadRange(doc, fail, PageRange(doc, fail))

\* ------------------------------------------------------------- clean_text

\* the header banner (re.DOTALL, so across lines): from SAQ ... lazily to
\* the next Page n, then lazily to the next En Place
HeaderEnd(s, p) ==
    IF s[p] # "SAQ" THEN 0
    ELSE LET q == MinPos({x \in (p + 1)..Len(s) : s[x] = "Page3"})
         IN  IF q = 0 THEN 0
             ELSE MinPos({x \in (q + 1)..Len(s) : s[x] = "EnPlace"})

RECURSIVE RemoveHeaders(_)
RemoveHeaders(s) ==
    LET p == MinPos({x \in 1..Len(s) : HeaderEnd(s, x) > 0})
    IN  IF p = 0 THEN s
        ELSE Slice(s, 1, p - 1) \o <<"">> \o RemoveHeaders(From(s, HeaderEnd(s, p) + 1))

\* the copyright stamp, on one line: (c) 2006-n ... LLC ... Tous Droits Reserves.
CopyrightEnd(s, p) ==
    IF s[p] # "Copy" THEN 0
    ELSE LET q == MinPos({x \in (p + 1)..LineEnd(s, p) : s[x] = "LLC."})
         IN  IF q = 0 THEN 0
             ELSE MinPos({x \in (q + 1)..LineEnd(s, p) : s[x] = "Droits"})

RECURSIVE RemoveCopyrights(_)
RemoveCopyrights(s) ==
    LET p == MinPos({x \in 1..Len(s) : CopyrightEnd(s, x) > 0})
    IN  IF p = 0 THEN s
        ELSE Slice(s, 1, p - 1) \o <<"">>
                 \o RemoveCopyrights(From(s, CopyrightEnd(s, p) + 1))

\* the cross-reference call-out up to the line break that must follow it
\* ('.*?(?=\n)': a call-out on a last line without line break stays)
RECURSIVE RemoveCrossRefs(_)
RemoveCrossRefs(s) ==
    LET p == MinPos({x \in 1..Len(s) : s[x] = "SeReporter" /\ LineEnd(s, x) < Len(s)})
    IN  IF p = 0 THEN s
        ELSE Slice(s, 1, p - 1) \o <<"">> \o RemoveCrossRefs(From(s, LineEnd(s, p) + 1))

\* re.sub('\n\s*\n', '\n\n'): in a run of whitespace, what lies between its
\* first and its last line break is dropped
RECURSIVE CollapseBlankLines(_)
CollapseBlankLines(s) ==
    IF s = <<>> THEN <<>>
    ELSE IF s[1] # "NL" THEN <<s[1]>> \o CollapseBlankLines(Tail(s))
    ELSE LET stop == SkipSpace(s, 1)
             last == CHOOSE x \in 1..(stop - 1) :
                         s[x] = "NL" /\ \A y \in (x + 1)..(stop - 1) : s[y] # "NL"
         IN  IF last = 1 THEN <<"NL">> \o CollapseBlankLines(Tail(s))
             ELSE <<"NL", "NL">> \o CollapseBlankLines(From(s, last + 1))

\* str.splitlines()
RECURSIVE SplitLines(_)
SplitLines(s) ==
    IF s = <<>> THEN <<>>
    ELSE LET nl == MinPos({x \in 1..Len(s) : s[x] = "NL"})
         IN  IF nl = 0 THEN <<s>>
             ELSE <<Slice(s, 1, nl - 1)>> \o SplitLines(From(s, nl + 1))

\* clean_text: the cleaned text, its stripped lines joined by line breaks
clean_text(text) ==
    LET t1 == RemoveHeaders(text)
        t2 == RemoveCopyrights(t1)
        t3 == RemoveCrossRefs(t2)
        t4 == RemoveAll(t3, <<Lit("Cocher")>>)
        t5 == RemoveAll(t4, FullAnswerHeader)
        t6 == RemoveAll(t5, PartialAnswerHeader)
        t7 == CutLines(t6, AnswerFragment)
        t8 == CollapseBlankLines(t7)
        ls == SplitLines(t8)
    IN  JoinLines([k \in 1..Len(ls) |-> Strip(ls[k])])

\* extract_all_requirements on an extractor whose self.requirements is
\* `stored`: [ret: the list returned, stored: self.requirements afterwards,
\* outcome: the branch taken]
\* "self.requirements = ...; return self.requirements"
Parsed(reqs) ==
    [ret |-> reqs, stored |-> reqs, outcome |-> "parsed"]

\* AfterRead with "self.requirements += ..." for "self.requirements = ..."
\* (a variant the determinism property must tell from the code)
AfterReadAccumulating(stored, raw_text) ==
    IF raw_text = <<>>
    THEN [ret |-> <<>>, stored |-> stored, outcome |-> "failure"]
    ELSE Parsed(stored \o parse_requirements(SplitLines(clean_text(raw_text))))

\* "if not raw_text: return []", else clean, parse, store and return
AfterRead(stored, raw_text) ==
    IF raw_text = <<>>
    THEN [ret |-> <<>>, stored |-> stored, outcome |-> "failure"]
    ELSE Parsed(parse_requirements(SplitLines(clean_text(raw_text))))

extract_all_requirements(stored, doc, fail) ==
    AfterRead(stored, read_pdf_content(doc, fail))

\* -------------------------------------------------------------- the inputs

\* The lines that documents are built from: requirement-number lines (a
\* repeated number, numbers out of order, a leading integer outside 1..12),
\* test lines, narrative with an embedded test, a continuation, the two
\* markers, boilerplate, a blank line.
LineVocab ==
    { <<"1.1", "mot">>,
      <<"1.1", "configuration", "mot">>,
      <<"1.2", "mot">>,
      <<"1.10", "mot">>,
      <<"13.1", "mot">>,
      <<"0.1", "mot">>,
      <<"BUL", "Examiner", "configuration", "systemes.">>,
      <<"BUL", "Examiner", "z">>,
      <<"mot", "BUL", "Examiner", "configuration">>,
      <<"systemes.">>,
      <<"mot", "mot">>,
      <<"NotesApp", "mot">>,
      <<"Conseils", "configuration">>,
      <<"mot", "CCW", "Cocher", "CCW">>,
      <<"mot", "SAQ", "Page3">>,
      <<"Page3">>,
      <<>> }

\* the sequences of at most n elements of S
RECURSIVE SeqsUpTo(_, _)
SeqsUpTo(S, n) ==
    IF n = 0 THEN {<<>>}
    ELSE LET shorter == SeqsUpTo(S, n - 1)
         IN  shorter \cup {Append(s, x) : s \in {t \in shorter : Len(t) = n - 1}, x \in S}

\* values of the variables a specification does not use
IdleParse == lines = <<>> /\ i = 0 /\ current_req = NoReq /\ requirements = <<>>
IdleExtractor ==
    /\ pdf = [lead |-> 0, pages |-> <<>>]
    /\ self_requirements = <<>>
    /\ history = <<>>
    /\ instances = <<>>
IdleBatch == downloaded_files = <<>> /\ file_index = 0 /\ csv_files = <<>> /\ extracted_csv_files = <<>>

\* previous_data is None
NoPreviousData == [present |-> FALSE, languages_column |-> FALSE, rows |-> <<>>]

\* the dictionary compare_versions starts from
NoChanges ==
    [new_documents |-> <<>>, updated_versions |-> <<>>,
     removed_documents |-> <<>>, unchanged_documents |-> <<>>]

IdleChanges ==
    documents = <<>> /\ previous_data = NoPreviousData /\ changes = NoChanges /\ decision = FALSE

IdleCmp == arg1 = <<>> /\ arg2 = <<>> /\ higher = FALSE /\ IdleChanges

\* ------------------------------------------ parse_requirements, step by step

\* parse_requirements(content) is entered: the state before the while loop
InitParse ==
    /\ pc = "parse"
    /\ lines \in SeqsUpTo(LineVocab, MaxLines)
    /\ i = 1
    /\ current_req = NoReq
    /\ requirements = <<>>
    /\ ret = <<>>
    /\ IdleExtractor /\ IdleBatch /\ IdleCmp

\* the loop stands on a line of class c
OnLine(c) ==
    /\ pc = "parse"
    /\ i <= Len(lines)
    /\ LineClass(lines, i, current_req) = c

\* one iteration of the while loop leaves the state n
Iteration(n) ==
    /\ i' = n.i
    /\ current_req' = n.current_req
    /\ requirements' = n.requirements
    /\ UNCHANGED <<pc, lines, ret, extractorVars, batchVars, cmpVars>>

BlankLine ==
    OnLine("blank") /\ Iteration(OnSkippedLine(lines, i, current_req, requirements))

RequirementLine ==
    OnLine("requirement") /\ Iteration(OnRequirementLine(lines, i, current_req, requirements))

LineOutsideRequirement ==
    OnLine("no_requirement") /\ Iteration(OnSkippedLine(lines, i, current_req, requirements))

TestLine ==
    OnLine("test") /\ Iteration(OnTestLine(lines, i, current_req, requirements))

ApplicabilityLine ==
    /\ OnLine("applicability")
    /\ Iteration(OnGuidanceLine(lines, i, current_req, requirements, "applicability"))

GuidanceLine ==
    /\ OnLine("guidance")
    /\ Iteration(OnGuidanceLine(lines, i, current_req, requirements, "guidance"))

IgnoredLine ==
    OnLine("ignored") /\ Iteration(OnSkippedLine(lines, i, current_req, requirements))

TextLine ==
    OnLine("text") /\ Iteration(OnTextLine(lines, i, current_req, requirements))

\* "return requirements"
Returns(reqs) == requirements' = reqs /\ ret' = reqs

\* the loop is over: the open record is closed and the list returned
EndOfInput ==
    /\ pc = "parse"
    /\ i > Len(lines)
    /\ Returns(CloseRequirement(requirements, current_req))
    /\ pc' = "done"
    /\ UNCHANGED <<lines, i, current_req, extractorVars, batchVars, cmpVars>>

NextParse ==
    \/ BlankLine
    \/ RequirementLine
    \/ LineOutsideRequirement
    \/ TestLine
    \/ ApplicabilityLine
    \/ GuidanceLine
    \/ IgnoredLine
    \/ TextLine
    \/ EndOfInput

SpecParse == InitParse /\ [][NextParse]_vars

\* ====================================================================
\* Properties of parse_requirements (SpecParse)
\* ====================================================================

\* the requirement numbers of a list of records, in order
ReqNumsOf(reqs) == [k \in 1..Len(reqs) |-> reqs[k].req_num]

NoDuplicateNumber(reqs) ==
    \A a, b \in 1..Len(reqs) : a # b => reqs[a].req_num # reqs[b].req_num

IsPrefix(s, t) == Len(s) <= Len(t) /\ SubSeq(t, 1, Len(s)) = s

\* the number of the requirement-number line ls[k], "" for another line
NumberOfLine(ls, k) == is_requirement_number(Strip(ls[k]))

\* C1: at every point of parse_requirements and in the list it returns, no
\* two records have the same req_num, and a step only ever appends to the
\* list: the records already there, among them the one whose number a dropped
\* record repeats, stay as they are.
C1_UniqueNumbers ==
    /\ [](NoDuplicateNumber(requirements) /\ NoDuplicateNumber(ret))
    /\ [][IsPrefix(requirements, requirements')]_vars

\* a number came twice with different text, and the list returned holds the
\* first of the two records only
C1_Witness ==
    /\ pc = "done"
    /\ lines = << <<"1.1", "mot">>, <<"1.1", "configuration", "mot">> >>
    /\ Len(ret) = 1
    /\ ret[1].text = <<"mot">>

\* C2: every record of the output list has a req_num whose leading integer
\* is in 1..12, whatever the lines.
C2_LeadingInRange ==
    \A k \in 1..Len(requirements) : IntParts(requirements[k].req_num)[1] \in 1..12

\* lines numbered 13.1 and 0.1 stood between accepted ones and made no record
C2_Witness ==
    /\ pc = "done"
    /\ \E a, b \in 1..Len(lines) :
           /\ lines[a] # <<>> /\ lines[a][1] = "13.1"
           /\ lines[b] # <<>> /\ lines[b][1] = "0.1"
    /\ ret # <<>>

\* ascending order under _is_higher_requirement
SortedHierarchically(reqs) ==
    \A a, b \in 1..Len(reqs) :
        a < b => ~_is_higher_requirement(Components(reqs[a].req_num),
                                         Components(reqs[b].req_num))

\* the accepted numbers of ls[k..] in the order of their first line
RECURSIVE FirstOccurrences(_, _, _)
FirstOccurrences(ls, k, seen) ==
    IF k > Len(ls) THEN seen
    ELSE FirstOccurrences(ls, k + 1,
             IF NumberOfLine(ls, k) = "" \/ InList(NumberOfLine(ls, k), seen)
             THEN seen
             ELSE Append(seen, NumberOfLine(ls, k)))

\* C3 as the specification states it: the list returned is sorted in
\* ascending hierarchical order whatever the order of the lines.
C3_ReturnedSorted == pc = "done" => SortedHierarchically(ret)

\* C3 as the code has it: the list returned is in document order, the
\* accepted numbers in the order of their first requirement-number line.
C3_DocumentOrder == pc = "done" => ReqNumsOf(ret) = FirstOccurrences(lines, 1, <<>>)

\* numbers out of order in the input are out of order in the list returned
C3_Witness ==
    /\ pc = "done"
    /\ Len(ret) >= 2
    /\ ~SortedHierarchically(ret)


\* position p of the line holds a bullet followed by a configured verb
IndicatorAt(line, p) ==
    p < Len(line) /\ line[p] = "BUL" /\ InList(line[p + 1], test_verbs)

FirstIndicator(line) == MinPos({p \in 1..Len(line) : IndicatorAt(line, p)})

\* the narrative of a line: what stands before its first test phrase
NarrativePart(line) ==
    IF FirstIndicator(line) = 0 THEN line ELSE Slice(line, 1, FirstIndicator(line) - 1)

\* a test phrase begun on line k or before is not finished at the end of
\* line k: it has not reached sentence-final punctuation
RECURSIVE PhraseOpen(_, _)
PhraseOpen(ls, k) ==
    /\ k >= 1
    /\ ~EndsSentence(Strip(ls[k]))
    /\ \/ FirstIndicator(ls[k]) > 0
       \/ /\ PhraseOpen(ls, k - 1)
          /\ Strip(ls[k]) # <<>>
          /\ ~StopsCapture("test", Strip(ls[k]))

\* line k continues the test phrase of the lines before it
ContinuesPhrase(ls, k) ==
    /\ PhraseOpen(ls, k - 1)
    /\ Strip(ls[k]) # <<>>
    /\ ~StopsCapture("test", Strip(ls[k]))

\* the tokens of the input that belong to no test phrase
NarrativeTokens(ls) ==
    UNION { {NarrativePart(ls[k])[x] : x \in 1..Len(NarrativePart(ls[k]))} :
            k \in {m \in 1..Len(ls) : ~ContinuesPhrase(ls, m)} }

\* C5: after extraction every test phrase of the input (a bullet and a
\* configured verb, on its own line or inside a narrative line) is in the
\* tests of its requirement and no part of it remains in the requirement's
\* text.  Stated for the second half: every token of a record's text comes
\* from the narrative of the input, none from a test phrase.
C5_NoTestPartInText ==
    pc = "done" =>
        \A r \in 1..Len(ret) : \A x \in 1..Len(ret[r].text) :
            ret[r].text[x] \in NarrativeTokens(lines) \cup {""}

\* a pattern of _remove_response_artifacts matches in s
HasResponseArtifact(s) ==
    \/ \E p \in 1..Len(s) : MatchPattern(s, p, AnswerFragment, 1) > 0
    \/ \E p \in 1..Len(s) : MatchPattern(s, p, FullAnswerHeader, 1) > 0
    \/ \E p \in 1..Len(s) : MatchPattern(s, p, PartialAnswerHeader, 1) > 0
    \/ \E p \in 1..Len(s) : PasAfter(s, p) > 0
    \/ \E p \in 1..Len(s) : StatusRun(s, p).terms >= 2
    \/ \E p \in 1..Len(s) : s[p] \in {"SeReporter", "Cocher"}

\* the page-header pattern or the copyright pattern of the cleaners matches in s
HasHeaderArtifact(s) ==
    FirstBefore(s, "SAQ", "Page3") > 0 \/ FirstBefore(s, "Copy", "LLC.") > 0

HasArtifact(s) == HasResponseArtifact(s) \/ HasHeaderArtifact(s)

\* C6: in every record of the output, after finalization, no pattern of the
\* removal set (page headers, copyright stamps, answer enumerations and their
\* parts, cross-references, form instructions) matches in text, in a tests
\* entry or in guidance.
C6_ArtifactAbsence ==
    pc = "done" =>
        \A r \in 1..Len(ret) :
            /\ ~HasArtifact(ret[r].text)
            /\ ~HasArtifact(ret[r].guidance)
            /\ \A k \in 1..Len(ret[r].tests) : ~HasArtifact(ret[r].tests[k])


\* ====================================================================
\* The extractor: extract_all_requirements, called again and again
\* ====================================================================

\* pages: the anchor 1.1.1 with a test, a later requirement with a page
\* header run into its text, a page without any requirement, an empty page
PageVocab ==
    { << <<"1.1.1", "mot">>, <<"BUL", "Examiner", "configuration", "systemes.">> >>,
      << <<"1.2", "mot">>, <<"mot", "SAQ", "Page3">> >>,
      << <<"mot", "mot">>, <<"Page3", "EnPlace">> >>,
      <<>> }

\* the number of empty pages in front: none, or as many as the fallback
\* start page skips
Leads == {0, StartFallback}

Pdfs == [lead : Leads, pages : SeqsUpTo(PageVocab, MaxPages)]

\* the ways a call can fail to read doc: not at all, at open(), or at the
\* first page or a page behind the leading ones
Failures(doc) ==
    {NoFailure, OpenFails}
        \cup {PageFails(p) : p \in {q \in {0} \cup (doc.lead)..(NumPages(doc) - 1) :
                                     q < NumPages(doc)}}

InitExtractor ==
    /\ pc = "idle"
    /\ pdf \in Pdfs
    /\ self_requirements = <<>>
    /\ history = <<>>
    /\ instances = <<>>
    /\ ret = <<>>
    /\ IdleParse /\ IdleBatch /\ IdleCmp

\* the call returns: r is what extract_all_requirements yields under fail
Completes(fail, r) ==
    /\ ret' = r.ret
    /\ self_requirements' = r.stored
    /\ history' = Append(history, [fail |-> fail,
                                   ret |-> r.ret,
                                   outcome |-> r.outcome,
                                   before |-> self_requirements,
                                   after |-> r.stored])
    /\ UNCHANGED <<pc, pdf, instances, parseVars, batchVars, cmpVars>>

\* a call of extract_all_requirements that takes "if not raw_text: return []"
ExtractionFails ==
    /\ pc = "idle"
    /\ Len(history) < MaxRuns
    /\ \E fail \in Failures(pdf) :
           /\ read_pdf_content(pdf, fail) = <<>>
           /\ Completes(fail, extract_all_requirements(self_requirements, pdf, fail))

\* a call of extract_all_requirements that cleans, parses, stores and returns
ExtractionParses ==
    /\ pc = "idle"
    /\ Len(history) < MaxRuns
    /\ \E fail \in Failures(pdf) :
           /\ read_pdf_content(pdf, fail) # <<>>
           /\ Completes(fail, extract_all_requirements(self_requirements, pdf, fail))

Next == ExtractionFails \/ ExtractionParses

Spec == InitExtractor /\ [][Next]_vars

\* C7: extraction is deterministic: two calls on the same document under
\* the same reading conditions return the same list, also when the second is
\* made on the extractor that made the first and holds its requirements.
C7_Deterministic ==
    \A a, b \in 1..Len(history) :
        history[a].fail = history[b].fail => history[a].ret = history[b].ret

\* a second call on an extractor that holds the requirements of a first one
C7_Witness ==
    \E a, b \in 1..Len(history) :
        /\ a < b
        /\ history[a].fail = NoFailure /\ history[b].fail = NoFailure
        /\ history[b].before # <<>>
        /\ history[b].ret = history[a].ret

\* the document cannot be opened, or a page of the range that
\* read_pdf_content extracts cannot be read
ReadFailure(doc, fail) ==
    \/ fail.kind = "open"
    \/ /\ fail.kind = "page"
       /\ fail.page >= PageRange(doc, fail).start_page
       /\ fail.page <= PageRange(doc, fail).end_page
       /\ fail.page < NumPages(doc)

EmptyAndUntouched(call) == call.ret = <<>> /\ call.after = call.before

\* C8 as the specification states it: whenever the document cannot be
\* opened or a page cannot be read, be it at page detection or at text
\* extraction, the call returns the empty list and leaves the stored
\* requirements unchanged.
C8_AnyFailureReturnsEmpty ==
    \A k \in 1..Len(history) :
        history[k].fail.kind # "none" => EmptyAndUntouched(history[k])

\* C8 as the code has it: when the document cannot be opened or a page of
\* the extracted range cannot be read, the call returns the empty list and
\* leaves the stored requirements unchanged (a failure met at page detection
\* only makes the fallback pages the range).
C8_ReadFailureReturnsEmpty ==
    \A k \in 1..Len(history) :
        ReadFailure(pdf, history[k].fail) => EmptyAndUntouched(history[k])

\* a page of the range failed on an extractor that held requirements
C8_Witness ==
    \E k \in 1..Len(history) :
        /\ history[k].fail.kind = "page"
        /\ ReadFailure(pdf, history[k].fail)
        /\ history[k].before # <<>>
        /\ EmptyAndUntouched(history[k])

\* the outcomes of the error taxonomy, read off a call
IsExtractionFailure(call) == call.outcome = "failure"
IsNoRequirementsFound(call) == call.outcome = "parsed" /\ call.ret = <<>>

\* C10: NoRequirementsFound is distinct from ExtractionFailure for the
\* caller: a call that ends in the one returns something else than a call
\* that ends in the other.
C10_OutcomesDistinct ==
    \A a, b \in 1..Len(history) :
        IsExtractionFailure(history[a]) /\ IsNoRequirementsFound(history[b])
            => history[a].ret # history[b].ret


\* ====================================================================
\* The comparator _is_higher_requirement
\* ====================================================================

\* str(n): the decimal digits of n
RECURSIVE Digits(_)
Digits(n) == IF n < 10 THEN <<n>> ELSE Digits(n \div 10) \o <<n % 10>>

ComponentStrings == {Digits(n) : n \in 0..MaxComponent}

\* dotted numbers of one to three components, as req1; of at most two
\* components or the empty string, as req2
LongIds == UNION {[1..d -> ComponentStrings] : d \in 1..3}
ShortIds == {<<>>} \cup UNION {[1..d -> ComponentStrings] : d \in 1..2}

InitCmp ==
    /\ pc = "compare"
    /\ arg1 \in LongIds
    /\ arg2 \in ShortIds
    /\ higher = FALSE
    /\ ret = <<>>
    /\ IdleParse /\ IdleExtractor /\ IdleBatch /\ IdleChanges

\* the call _is_higher_requirement(req1, req2)
Compare ==
    /\ pc = "compare"
    /\ higher' = _is_higher_requirement(arg1, arg2)
    /\ pc' = "compared"
    /\ UNCHANGED <<arg1, arg2, ret, changeVars, parseVars, extractorVars, batchVars>>

NextCmp == Compare

SpecCmp == InitCmp /\ [][NextCmp]_vars

\* req1 is a.b.c and req2 its parent a.b
IsChildOfParent == Len(arg1) = 3 /\ arg2 = SubSeq(arg1, 1, 2)

IsTenAgainstTwo == arg1 = << <<1>>, <<1, 0>> >> /\ arg2 = << <<1>>, <<2>> >>

\* C4 as the specification states it: for all non-negative a, b, c the
\* number a.b.c compares strictly higher than a.b, and 1.10 compares strictly
\* higher than 1.2.
C4_ChildHigher ==
    pc = "compared" /\ (IsChildOfParent \/ IsTenAgainstTwo) => higher

\* C4 as the code has it: a.b.c compares strictly higher than a.b exactly
\* when c is not zero (a.b.0 pads to the same tuple as a.b), and 1.10 compares
\* strictly higher than 1.2.
C4_NonZeroChildHigher ==
    /\ pc = "compared" /\ IsChildOfParent => (higher <=> ToInt(arg1[3]) # 0)
    /\ pc = "compared" /\ IsTenAgainstTwo => higher

\* a child with a component of two digits was compared with its parent
C4_Witness ==
    /\ pc = "compared"
    /\ IsChildOfParent
    /\ arg1[3] = <<1, 0>>
    /\ higher

\* ====================================================================
\* The batch: extract_downloaded_pdfs
\* ====================================================================

\* sort_key of save_to_csv: the integer components, padded with zeros to four
\* "while len(parts) < 4: parts.append(0)"
PadToFour(parts) == parts \o [k \in 1..(4 - Len(parts)) |-> 0]

sort_key(req) == PadToFour(IntParts(req.req_num))

\* sorted(..., key=sort_key): a stable insertion of req into a sorted list
RECURSIVE InsertSorted(_, _)
InsertSorted(sorted, req) ==
    IF sorted = <<>> THEN <<req>>
    ELSE IF ListGreater(sort_key(Head(sorted)), sort_key(req))
         THEN <<req>> \o sorted
         ELSE <<Head(sorted)>> \o InsertSorted(Tail(sorted), req)

RECURSIVE Sorted(_)
Sorted(reqs) ==
    IF reqs = <<>> THEN <<>>
    ELSE InsertSorted(Sorted(SubSeq(reqs, 1, Len(reqs) - 1)), reqs[Len(reqs)])

\* " ; ".join(req['tests'])
RECURSIVE JoinTests(_)
JoinTests(tests) ==
    IF tests = <<>> THEN <<>>
    ELSE IF Len(tests) = 1 THEN tests[1]
    ELSE tests[1] \o <<";">> \o JoinTests(Tail(tests))

csv_row(req) ==
    [req_num |-> req.req_num,
     text |-> req.text,
     tests |-> JoinTests(req.tests),
     guidance |-> req.guidance]

SortedRows(sorted_requirements) ==
    [k \in 1..Len(sorted_requirements) |-> csv_row(sorted_requirements[k])]

\* save_to_csv: the rows written to the output file
save_to_csv(reqs) == SortedRows(Sorted(reqs))

\* the documents a batch is made of: one with a requirement, one without
\* any, each readable or not, each with an output file that can be written
\* or cannot
BatchPdfs ==
    { [lead |-> 0,
       pages |-> << << <<"1.1.1", "mot">>,
                       <<"BUL", "Examiner", "configuration", "systemes.">> >> >>],
      [lead |-> StartFallback, pages |-> << << <<"mot", "mot">> >> >>] }

Files == [pdf : BatchPdfs, fail : {NoFailure, OpenFails}, writable : BOOLEAN]

InitBatch ==
    /\ pc = "loop"
    /\ downloaded_files \in SeqsUpTo(Files, MaxFiles)
    /\ file_index = 1
    /\ csv_files = <<>>
    /\ extracted_csv_files = <<>>
    /\ ret = <<>>
    /\ IdleParse /\ IdleExtractor /\ IdleCmp

\* "requirements = extractor.extract_all_requirements()" on a new extractor
\* for the document the loop stands on
Extracted(file) == extract_all_requirements(<<>>, file.pdf, file.fail).ret

InLoop == pc = "loop" /\ file_index <= Len(downloaded_files)

\* "if requirements:" and save_to_csv writes the file
DocumentExported ==
    /\ InLoop
    /\ Extracted(downloaded_files[file_index]) # <<>>
    /\ downloaded_files[file_index].writable
    /\ csv_files' = Append(csv_files, save_to_csv(Extracted(downloaded_files[file_index])))
    /\ extracted_csv_files' = Append(extracted_csv_files, file_index)
    /\ file_index' = file_index + 1
    /\ UNCHANGED <<pc, downloaded_files, ret, parseVars, extractorVars, cmpVars>>

\* "if requirements:" and save_to_csv raises: the exception leaves the for
\* loop for the "except Exception" that encloses it, and the call returns
ExportRaises ==
    /\ InLoop
    /\ Extracted(downloaded_files[file_index]) # <<>>
    /\ ~downloaded_files[file_index].writable
    /\ pc' = "returned"
    /\ UNCHANGED <<ret, parseVars, extractorVars, batchVars, cmpVars>>

\* "else:" nothing extracted (read failure or no requirement): a warning
NothingExtracted ==
    /\ InLoop
    /\ Extracted(downloaded_files[file_index]) = <<>>
    /\ file_index' = file_index + 1
    /\ UNCHANGED <<pc, downloaded_files, csv_files, extracted_csv_files, ret,
                   parseVars, extractorVars, cmpVars>>

\* the for loop is over
LoopEnds ==
    /\ pc = "loop"
    /\ file_index > Len(downloaded_files)
    /\ pc' = "returned"
    /\ UNCHANGED <<ret, parseVars, extractorVars, batchVars, cmpVars>>

NextBatch == DocumentExported \/ ExportRaises \/ NothingExtracted \/ LoopEnds

SpecBatch == InitBatch /\ [][NextBatch]_vars

\* C9: a failure while extracting or exporting one document does not abort
\* the run: when extract_downloaded_pdfs returns, every document of the batch
\* after the failing one has been extracted (the loop has reached the last).
C9_BatchNotAborted ==
    pc = "returned" => file_index >= Len(downloaded_files)

\* --------------------------------------------- the end-to-end scenario
\* The five lines of the scenario, under a profile whose applicability marker
\* is the token "NotesApp" and whose test indicator is "BUL" "Examiner":
\*   1.1 Processes are defined.
\*   1.1.1 Policies are documented.
\*   (bullet) Examine documentation to verify policy exists.
\*   Notes: Applies to all merchants.
\*   1.2 Next requirement.
Scenario ==
    << <<"1.1", "ProcessesDefined.">>,
       <<"1.1.1", "PoliciesDocumented.">>,
       <<"BUL", "Examiner", "DocumentationExists.">>,
       <<"NotesApp", "AppliesMerchants.">>,
       <<"1.2", "NextRequirement.">> >>

\* s with the line l put in after its first p lines
InsertAt(s, p, l) == SubSeq(s, 1, p) \o <<l>> \o SubSeq(s, p + 1, Len(s))

\* the scenario, and the scenario with one more line of the vocabulary in it
ScenarioDocuments ==
    {Scenario} \cup {InsertAt(Scenario, p, l) : p \in 0..Len(Scenario), l \in LineVocab}

InitScenario ==
    /\ pc = "parse"
    /\ lines \in ScenarioDocuments
    /\ i = 1
    /\ current_req = NoReq
    /\ requirements = <<>>
    /\ ret = <<>>
    /\ IdleExtractor /\ IdleBatch /\ IdleCmp

SpecScenario == InitScenario /\ [][NextParse]_vars

\* C11: parsing the five scenario lines yields record 1.1 with the text
\* "Processes are defined." and no tests, and record 1.1.1 with the text
\* "Policies are documented.", the one test "Examine documentation to verify
\* policy exists." and the guidance "Applies to all merchants.".
C11_Scenario ==
    (pc = "done" /\ lines = Scenario) =>
        /\ Len(ret) >= 2
        /\ ret[1] = [req_num |-> "1.1", text |-> <<"ProcessesDefined.">>,
                     tests |-> <<>>, guidance |-> <<>>]
        /\ ret[2] = [req_num |-> "1.1.1", text |-> <<"PoliciesDocumented.">>,
                     tests |-> << <<"Examiner", "DocumentationExists.">> >>,
                     guidance |-> <<"AppliesMerchants.">>]

\* the scenario was parsed to its end and 1.2 opened a third record
C11_Witness ==
    /\ pc = "done"
    /\ lines = Scenario
    /\ Len(ret) = 3
    /\ ret[3].req_num = "1.2"

\* ====================================================================
\* Page detection: find_start_page and find_end_page on one document
\* ====================================================================

\* pages for the detection of the range: the anchor at the start of a line,
\* inside a line, alone on the page and alone on a line; numbers in and out
\* of the range 1..12; pages without any number
ScanPageVocab ==
    { << <<"1.1.1", "mot">> >>,
      << <<"mot", "1.1.1", "mot">> >>,
      << <<"1.1.1">> >>,
      << <<"1.1.1">>, <<"mot", "mot">> >>,
      << <<"1.10", "mot">>, <<"1.2", "mot">> >>,
      << <<"1.2", "mot">> >>,
      << <<"13.1", "mot">> >>,
      << <<"12.1", "mot">>, <<"0.1", "mot">> >>,
      << <<"mot", "mot">>, <<"7", "mot">> >>,
      <<>> }

\* empty pages in front: none, one, or as many as the fallback start skips
ScanLeads == {0, 1, StartFallback}

ScanPdfs == [lead : ScanLeads, pages : SeqsUpTo(ScanPageVocab, MaxPages)]

InitPages ==
    /\ pc = "pages"
    /\ pdf \in ScanPdfs
    /\ self_requirements = <<>>
    /\ history = <<>>
    /\ instances = <<>>
    /\ ret = <<>>
    /\ IdleParse /\ IdleBatch /\ IdleCmp

\* a detection call returns page under the reading conditions fail
Detected(call, fail, page) ==
    /\ history' = Append(history, [call |-> call, fail |-> fail, page |-> page])
    /\ UNCHANGED <<pc, ret, pdf, self_requirements, instances, parseVars, batchVars, cmpVars>>

FindStartPage ==
    /\ pc = "pages"
    /\ history = <<>>
    /\ \E fail \in Failures(pdf) :
           Detected("find_start_page", fail, find_start_page(pdf, fail))

FindEndPage ==
    /\ pc = "pages"
    /\ history = <<>>
    /\ \E fail \in Failures(pdf) :
           Detected("find_end_page", fail, find_end_page(pdf, fail))

NextPages == FindStartPage \/ FindEndPage

SpecPages == InitPages /\ [][NextPages]_vars

\* the page indices of the document
PageIndices(doc) == 0..(NumPages(doc) - 1)

\* a line of the page is the anchor 1.1.1 followed by whitespace
AnchorLine(page, k) ==
    /\ page[k] # <<>>
    /\ page[k][1] = "1.1.1"
    /\ (Len(page[k]) > 1 \/ k < Len(page))

AnchorPages(doc) ==
    {p \in PageIndices(doc) :
        \E k \in 1..Len(PageLines(doc, p)) : AnchorLine(PageLines(doc, p), k)}

\* the scan under fail reads page p without an exception
Readable(fail, p) == fail.kind = "none" \/ (fail.kind = "page" /\ fail.page # p)

\* the scan reaches an anchor page before anything fails
ReachesAnchor(doc, fail) ==
    /\ fail.kind # "open"
    /\ \E m \in AnchorPages(doc) : \A p \in 0..m : Readable(fail, p)

\* C12: find_start_page returns the smallest index of a page with a line that
\* starts with the anchor 1.1.1 followed by whitespace; when no page has one,
\* or reading fails before one is reached, it returns the fallback 15.
C12_StartPage ==
    \A n \in 1..Len(history) :
        history[n].call = "find_start_page" =>
            IF ReachesAnchor(pdf, history[n].fail)
            THEN /\ history[n].page \in AnchorPages(pdf)
                 /\ \A p \in AnchorPages(pdf) : history[n].page <= p
            ELSE history[n].page = StartFallback

\* of two pages with the anchor the first was returned; it is neither the
\* first page of the document nor the fallback page
C12_Witness ==
    \E n \in 1..Len(history) :
        /\ history[n].call = "find_start_page"
        /\ history[n].fail = NoFailure
        /\ history[n].page > 0
        /\ history[n].page # StartFallback
        /\ Cardinality(AnchorPages(pdf)) > 1


\* the dotted numbers at the start of a line of the document, followed by
\* whitespace, with the page they stand on
IdsOfPage(page, p) ==
    {[id |-> page[k][1], page |-> p] :
        k \in {n \in 1..Len(page) :
                  /\ page[n] # <<>>
                  /\ Len(Components(page[n][1])) >= 2
                  /\ (Len(page[n]) > 1 \/ n < Len(page))}}

LineStartIds(doc) ==
    UNION {IdsOfPage(PageLines(doc, p), p) : p \in PageIndices(doc)}

\* those whose leading integer is in 1..12
ValidIds(doc) ==
    {v \in LineStartIds(doc) : IntParts(v.id)[1] \in MinMain..MaxMain}

\* the hierarchical ordering: integer tuples, the shorter padded with zeros
Higher(a, b) ==
    ListGreater(PadZeros(IntParts(a), Len(IntParts(b))),
                PadZeros(IntParts(b), Len(IntParts(a))))

\* C13: on a readable document find_end_page returns a page on which the
\* greatest valid id (leading integer in 1..12) occurs, whatever ids outside
\* that range the pages carry, and the fallback 128 when there is no valid id.
C13_EndPage ==
    \A n \in 1..Len(history) :
        (history[n].call = "find_end_page" /\ history[n].fail = NoFailure) =>
            IF ValidIds(pdf) = {}
            THEN history[n].page = EndFallback
            ELSE \E v \in ValidIds(pdf) :
                     /\ v.page = history[n].page
                     /\ \A w \in ValidIds(pdf) : ~Higher(w.id, v.id)

\* a number out of the range stands on a later page than the greatest valid
\* one, and the page of the valid one was returned
C13_Witness ==
    \E n \in 1..Len(history) :
        /\ history[n].call = "find_end_page"
        /\ history[n].fail = NoFailure
        /\ history[n].page # EndFallback
        /\ \E w \in LineStartIds(pdf) \ ValidIds(pdf) :
               /\ w.page > history[n].page
               /\ \A v \in ValidIds(pdf) : Higher(w.id, v.id)

\* ====================================================================
\* Two extractor instances, their parsing steps interleaved
\* ====================================================================
\* Each instance has the locals of its own call of parse_requirements
\* (lines, i, current_req, requirements: testv5.py 191-194) and its own
\* self.requirements (21); the class has no attribute of its own.

Instances == {1, 2}

PairVocab ==
    { <<"1.1", "mot">>,
      <<"1.2", "configuration", "mot">>,
      <<"BUL", "Examiner", "configuration", "systemes.">>,
      <<"mot", "mot">> }

NewInstance(ls) ==
    [pc |-> "parse", lines |-> ls, i |-> 1, current_req |-> NoReq,
     requirements |-> <<>>, self_requirements |-> <<>>, ret |-> <<>>,
     overlapped |-> FALSE]

InitPair ==
    /\ pc = "pair"
    /\ instances \in [Instances -> {NewInstance(ls) : ls \in SeqsUpTo(PairVocab, MaxPairLines)}]
    /\ pdf = [lead |-> 0, pages |-> <<>>]
    /\ self_requirements = <<>>
    /\ history = <<>>
    /\ ret = <<>>
    /\ IdleParse /\ IdleBatch /\ IdleCmp

\* the instance after an iteration of its loop that leaves the state n
StepInstance(inst, n) ==
    [inst EXCEPT !.i = n.i, !.current_req = n.current_req,
                 !.requirements = n.requirements]

\* the list of the stepping instance r put into every other instance
ShareList(insts, r, n) ==
    [q \in DOMAIN insts |->
        IF q = r THEN StepInstance(insts[q], n)
        ELSE [insts[q] EXCEPT !.requirements = n.requirements]]

\* an iteration by instance r when "requirements" were one list of the class,
\* seen by every instance (a variant the isolation property must tell from
\* the code)
IterationOnSharedList(insts, r) ==
    ShareList(insts, r, ParseLine(insts[r].lines, insts[r].i, insts[r].current_req,
                                  insts[r].requirements))

\* one iteration of the while loop of instance r
IterationOf(insts, r) ==
    [insts EXCEPT ![r] =
        StepInstance(insts[r],
            ParseLine(insts[r].lines, insts[r].i, insts[r].current_req,
                      insts[r].requirements))]

\* the instance after "self.requirements = ...; return self.requirements"
Returned(inst, reqs) ==
    [inst EXCEPT !.pc = "done", !.requirements = reqs,
                 !.self_requirements = reqs, !.ret = reqs]

\* instance r leaves its loop, stores the list and returns it
ReturnOf(insts, r) ==
    [insts EXCEPT ![r] =
        Returned(insts[r], CloseRequirement(insts[r].requirements, insts[r].current_req))]

\* another instance is in the middle of its loop
OthersRunning(insts, r) ==
    \E q \in DOMAIN insts : q # r /\ insts[q].pc = "parse" /\ insts[q].i > 1

\* instance r made its step while another one was in the middle of its loop
Stepped(after, r) ==
    instances' = [after EXCEPT ![r].overlapped = @ \/ OthersRunning(instances, r)]

PairFrame == UNCHANGED <<pc, ret, pdf, self_requirements, history, parseVars, batchVars, cmpVars>>

InstanceIterates ==
    /\ pc = "pair"
    /\ \E r \in Instances :
           /\ instances[r].pc = "parse"
           /\ instances[r].i <= Len(instances[r].lines)
           /\ Stepped(IterationOf(instances, r), r)
    /\ PairFrame

InstanceReturns ==
    /\ pc = "pair"
    /\ \E r \in Instances :
           /\ instances[r].pc = "parse"
           /\ instances[r].i > Len(instances[r].lines)
           /\ Stepped(ReturnOf(instances, r), r)
    /\ PairFrame

NextPair == InstanceIterates \/ InstanceReturns

SpecPair == InitPair /\ [][NextPair]_vars

\* C14: whatever the interleaving of the steps of two instances, each returns
\* (and stores) the list it returns when run alone, and a step of one instance
\* leaves the list, the open record and the cursor of the other as they were.
C14_Isolated ==
    /\ [](\A r \in DOMAIN instances :
             instances[r].pc = "done" =>
                 /\ instances[r].ret = parse_requirements(instances[r].lines)
                 /\ instances[r].self_requirements = instances[r].ret)
    /\ [][\A r, q \in DOMAIN instances :
             (instances'[r] # instances[r] /\ q # r) => instances'[q] = instances[q]]_vars

\* both instances returned different non-empty lists, and each made steps
\* while the other was in the middle of its loop
C14_Witness ==
    /\ DOMAIN instances = Instances
    /\ \A r \in Instances :
           /\ instances[r].pc = "done"
           /\ instances[r].overlapped
           /\ instances[r].ret # <<>>
    /\ instances[1].ret # instances[2].ret

\* --------------------------------------------- records of the output list

\* C15: a record that is in the output list stays there with the req_num,
\* text, tests and guidance it was appended with, whatever lines, captures,
\* finalizations and duplicates of its number follow.
C15_AppendedFrozen ==
    [][\A k \in 1..Len(requirements) :
           /\ k <= Len(requirements')
           /\ requirements'[k].req_num = requirements[k].req_num
           /\ requirements'[k].text = requirements[k].text
           /\ requirements'[k].tests = requirements[k].tests
           /\ requirements'[k].guidance = requirements[k].guidance]_vars

\* after the first record was appended its number came again with another
\* text and a test was captured for it; the first record is returned as it was
C15_Witness ==
    /\ pc = "done"
    /\ Len(lines) >= 3
    /\ NumberOfLine(lines, 1) # ""
    /\ NumberOfLine(lines, 2) = NumberOfLine(lines, 1)
    /\ lines[2] # lines[1]
    /\ is_test_line(lines[3])
    /\ Len(ret) = 1
    /\ ret[1].text = extract_requirement_text(lines[1], NumberOfLine(lines, 1))
    /\ ret[1].tests = <<>>

\* the line under the cursor while the loop runs, <<>> past the last line
CurrentLine == IF pc = "parse" /\ i <= Len(lines) THEN Strip(lines[i]) ELSE <<>>

\* the current line is a dotted number with a leading integer in 1..12
\* followed by whitespace and the rest of the line
OnNumberLine ==
    /\ Len(CurrentLine) >= 2
    /\ Len(Components(CurrentLine[1])) >= 2
    /\ IntParts(CurrentLine[1])[1] \in 1..12

\* the record a number line opens
FreshRecord(line) ==
    [req_num |-> line[1], text |-> LStrip(Tail(line)), tests |-> <<>>, guidance |-> <<>>]

\* the open record was finalized and put into the list, or dropped when its
\* number is there already; without an open record the list stays
PreviousClosed ==
    IF current_req = NoReq \/ InList(current_req.req_num, ReqNumsOf(requirements))
    THEN requirements' = requirements
    ELSE requirements' = Append(requirements, _finalize_requirement(current_req))

\* C16: an iteration of the loop opens a record exactly when its line is a
\* requirement-number line with a leading integer in 1..12: the open record is
\* then finalized and closed, and the new one has the rest of the line as
\* text, no tests and no guidance.  On any other line the open record remains
\* the open record and the list is left alone.
C16_OpensOnNumberLine ==
    [][(pc = "parse" /\ pc' = "parse") =>
          IF OnNumberLine
          THEN current_req' = FreshRecord(CurrentLine) /\ PreviousClosed
          ELSE /\ requirements' = requirements
               /\ (current_req = NoReq) = (current_req' = NoReq)
               /\ current_req # NoReq => current_req'.req_num = current_req.req_num]_vars

\* a record with a captured test was closed by the number line that opened
\* the next record
C16_Witness ==
    /\ pc = "parse"
    /\ i > 1
    /\ Len(requirements) = 1
    /\ requirements[1].tests # <<>>
    /\ current_req # NoReq
    /\ current_req.req_num # requirements[1].req_num
    /\ current_req.req_num = NumberOfLine(lines, i - 1)
    /\ current_req.tests = <<>>

\* ------------------------------------------- the cursor after a look-ahead

\* the last line the inline extraction absorbed for the text line under the
\* cursor; the cursor itself when it absorbed none or the line is no text line
LastConsumed ==
    IF pc = "parse" /\ i <= Len(lines) /\ LineClass(lines, i, current_req) = "text"
    THEN _extract_tests_from_text_line_multiline(Strip(lines[i]), current_req.tests,
                                                 lines, i).processed
    ELSE i

\* C17: when the inline extraction on the text line under the cursor absorbed
\* following lines up to line j, the next line the loop classifies is the one
\* after j.
C17_CursorPastConsumed ==
    [][LastConsumed > i => i' = LastConsumed + 1]_vars

\* ---------------------------------------------------- capture of guidance

\* the line starts with the applicability marker or with the guidance marker
MarkerLine(line) ==
    \/ StartsWith(Strip(line), <<applicability_marker>>)
    \/ StartsWith(Strip(line), <<guidance_marker>>)

\* the capture started by the marker line ls[k] under the continuation rule
\* of test capture: [text, j], j the first line that is a number line, a
\* test line, a line with either marker or an ignorable line
CaptureLikeTest(ls, k) == Capture(ls, k + 1, Strip(Tail(Strip(ls[k]))), "test")

\* the cursor stands on a marker line of the open record
OnMarkerLine ==
    /\ pc = "parse"
    /\ i <= Len(lines)
    /\ LineClass(lines, i, current_req) \in {"applicability", "guidance"}

\* C18: guidance capture follows the continuation rule of test capture: it
\* absorbs the non-blank lines after the marker line up to the first number
\* line, test line, applicability line, guidance line or ignorable line, and
\* the loop goes on at that line.
C18_SameContinuationRule ==
    [][OnMarkerLine =>
          /\ i' = CaptureLikeTest(lines, i).j
          /\ current_req'.guidance = _clean_guidance_text(CaptureLikeTest(lines, i).text)]_vars

\* the kind of capture a marker line starts, and the marker of the other kind
KindOf(line) ==
    IF StartsWith(Strip(line), <<applicability_marker>>) THEN "applicability" ELSE "guidance"

OtherMarker(kind) ==
    IF kind = "applicability" THEN guidance_marker ELSE applicability_marker

\* the line stops a guidance capture of that kind: a number line, a test
\* line, an ignorable line, a line with the marker of the other kind
StopsGuidance(kind, line) ==
    \/ is_requirement_number(line) # ""
    \/ is_test_line(line)
    \/ _should_ignore_line(line)
    \/ StartsWith(line, <<OtherMarker(kind)>>)

\* the first non-blank line after the marker line ls[k] that stops its
\* capture, the position after the last line when there is none
StopIndex(ls, k) ==
    LET stops == {j \in (k + 1)..Len(ls) :
                     Strip(ls[j]) # <<>> /\ StopsGuidance(KindOf(ls[k]), Strip(ls[j]))}
    IN  IF stops = {} THEN Len(ls) + 1
        ELSE CHOOSE j \in stops : \A m \in stops : j <= m

\* the lines a..b, stripped and joined
RECURSIVE Joined(_, _, _)
Joined(ls, a, b) == IF a > b THEN <<>> ELSE Strip(ls[a]) \o Joined(ls, a + 1, b)

\* what the capture started by the marker line ls[k] accumulates
GuidanceCaptured(ls, k) ==
    Strip(Tail(Strip(ls[k]))) \o Joined(ls, k + 1, StopIndex(ls, k) - 1)

\* C18, amended: a guidance capture absorbs the non-blank lines after its
\* marker line up to the first number line, test line, ignorable line or line
\* with the marker of the other kind; a line with its own marker is absorbed
\* like any other line.  The loop goes on at the line that stopped it.
C18_StopsAtOtherMarker ==
    [][OnMarkerLine =>
          /\ i' = StopIndex(lines, i)
          /\ current_req'.guidance = _clean_guidance_text(GuidanceCaptured(lines, i))]_vars

\* a capture absorbed a line that starts with its own marker: the marker is
\* part of the guidance
C18_Witness ==
    /\ pc = "parse"
    /\ current_req # NoReq
    /\ \E p \in 1..Len(current_req.guidance) :
           current_req.guidance[p] \in {applicability_marker, guidance_marker}

\* the last marker line of ls
LastMarker(ls) ==
    CHOOSE k \in 1..Len(ls) :
        MarkerLine(ls[k]) /\ \A m \in (k + 1)..Len(ls) : ~MarkerLine(ls[m])

\* one requirement, opened by the first line, with a marker line after it
OneRequirementWithMarker ==
    /\ pc = "done"
    /\ Len(lines) >= 2
    /\ NumberOfLine(lines, 1) # ""
    /\ \A k \in 2..Len(lines) : NumberOfLine(lines, k) = ""
    /\ \E k \in 2..Len(lines) : MarkerLine(lines[k])

\* C19: guidance is last-writer-wins: the guidance of the record is the
\* cleaned capture of the last line of the requirement that starts with
\* either marker, and nothing of an earlier capture.
C19_LastWriterWins ==
    OneRequirementWithMarker =>
        /\ Len(ret) = 1
        /\ ret[1].guidance =
               _remove_response_artifacts(
                   _clean_guidance_text(CaptureLikeTest(lines, LastMarker(lines)).text))

\* the marker line ls[k] lies inside the capture of an earlier line with the
\* same marker: no line between the two stops that capture
Absorbed(ls, k) ==
    \E m \in 1..(k - 1) :
        /\ MarkerLine(ls[m])
        /\ KindOf(ls[m]) = KindOf(ls[k])
        /\ StopIndex(ls, m) > k

\* the last marker line the loop reaches as its current line
LastWriter(ls) ==
    CHOOSE k \in 1..Len(ls) :
        /\ MarkerLine(ls[k]) /\ ~Absorbed(ls, k)
        /\ \A m \in (k + 1)..Len(ls) : ~(MarkerLine(ls[m]) /\ ~Absorbed(ls, m))

\* C19, amended: the guidance of the record is the cleaned capture of the
\* last marker line that is not inside the capture of an earlier line with
\* the same marker; what an earlier capture stored is discarded.
C19_LastReachedWriterWins ==
    OneRequirementWithMarker =>
        /\ Len(ret) = 1
        /\ ret[1].guidance =
               _remove_response_artifacts(
                   _clean_guidance_text(GuidanceCaptured(lines, LastWriter(lines))))

\* an applicability capture was overwritten by the guidance capture after it
C19_Witness ==
    /\ OneRequirementWithMarker
    /\ Len(lines) >= 3
    /\ KindOf(lines[2]) = "applicability" /\ MarkerLine(lines[2])
    /\ KindOf(lines[3]) = "guidance" /\ MarkerLine(lines[3])
    /\ Tail(Strip(lines[2])) # Tail(Strip(lines[3]))
    /\ ret[1].guidance = Tail(Strip(lines[3]))

\* ------------------------------------------------------- capture of tests

\* the cursor stands on a test line of the open record
OnTestLineNow ==
    /\ pc = "parse"
    /\ i <= Len(lines)
    /\ LineClass(lines, i, current_req) = "test"

\* the line ends a test capture: a number line, a test line, a line with
\* either marker, an ignorable line
StopsTest(line) ==
    \/ is_requirement_number(line) # ""
    \/ is_test_line(line)
    \/ StartsWith(line, <<applicability_marker>>)
    \/ StartsWith(line, <<guidance_marker>>)
    \/ _should_ignore_line(line)

\* the first non-blank line after line k that ends the capture, the position
\* after the last line when there is none
TestStopIndex(ls, k) ==
    LET stops == {j \in (k + 1)..Len(ls) : Strip(ls[j]) # <<>> /\ StopsTest(Strip(ls[j]))}
    IN  IF stops = {} THEN Len(ls) + 1
        ELSE CHOOSE j \in stops : \A m \in stops : j <= m

\* the test line ls[k] without its bullet, with the lines absorbed after it
TestCaptured(ls, k) ==
    Strip(Tail(Strip(ls[k]))) \o Joined(ls, k + 1, TestStopIndex(ls, k) - 1)

\* the tests of the record after the cleaned capture t
WithTest(tests, t) == IF StrLen(t) > 10 THEN Append(tests, t) ELSE tests

\* C20: a test capture absorbs the non-blank lines after its test line up to,
\* and without, the first number line, test line, marker line or ignorable
\* line; the loop goes on at that line; the cleaned text becomes one entry of
\* tests when it has more than 10 characters and is dropped otherwise.
C20_TestCapture ==
    [][OnTestLineNow =>
          /\ i' = TestStopIndex(lines, i)
          /\ current_req'.tests =
                 WithTest(current_req.tests, _clean_test_text(TestCaptured(lines, i)))]_vars

\* a capture was stopped by a marker line, on which the cursor now stands,
\* and its text was stored as the one test of the record
C20_Witness ==
    /\ pc = "parse"
    /\ i >= 2 /\ i <= Len(lines)
    /\ is_test_line(Strip(lines[i - 1]))
    /\ MarkerLine(lines[i])
    /\ current_req # NoReq
    /\ Len(current_req.tests) = 1
    /\ current_req.tests[1] = _clean_test_text(Strip(Tail(Strip(lines[i - 1]))))

\* --------------------------------------------- the five cases of a line

\* a record is open and the line under the cursor is neither blank nor a
\* requirement-number line
OnOtherLine ==
    /\ pc = "parse"
    /\ i <= Len(lines)
    /\ current_req # NoReq
    /\ CurrentLine # <<>>
    /\ ~OnNumberLine

\* the first of the five cases the line falls under, in the order of the
\* if/elif chain
FirstCase(line) ==
    IF is_test_line(line) THEN "test"
    ELSE IF StartsWith(line, <<applicability_marker>>) THEN "applicability"
    ELSE IF StartsWith(line, <<guidance_marker>>) THEN "guidance"
    ELSE IF _should_ignore_line(line) THEN "ignored"
    ELSE "narrative"

\* what the step leaves alone in each case
KeepsText == current_req'.text = current_req.text
KeepsTests == current_req'.tests = current_req.tests
KeepsGuidance == current_req'.guidance = current_req.guidance

\* the step did what the case c does, and nothing of the other cases
HandledAs(c) ==
    CASE c = "test" ->
             /\ i' = TestStopIndex(lines, i)
             /\ current_req'.tests =
                    WithTest(current_req.tests, _clean_test_text(TestCaptured(lines, i)))
             /\ KeepsText /\ KeepsGuidance
      [] c \in {"applicability", "guidance"} ->
             /\ i' = StopIndex(lines, i)
             /\ current_req'.guidance = _clean_guidance_text(GuidanceCaptured(lines, i))
             /\ KeepsText /\ KeepsTests
      [] c = "ignored" ->
             /\ i' = i + 1
             /\ current_req' = current_req
      [] c = "narrative" ->
             /\ i' = OnTextLine(lines, i, current_req, requirements).i
             /\ current_req' = OnTextLine(lines, i, current_req, requirements).current_req
             /\ KeepsGuidance

\* C21: while a record is open, a non-blank line that is no requirement-number
\* line is handled by exactly one of the five cases test line, applicability
\* line, guidance line, ignorable line, narrative line: the first one in that
\* order the line falls under.
C21_FirstCaseHandles ==
    [][OnOtherLine => (HandledAs(FirstCase(CurrentLine)) /\ requirements' = requirements)]_vars

\* a line with the guidance marker went into guidance only: the words after
\* the marker are in guidance, the text is the one of the number line
C21_Witness ==
    /\ pc = "parse"
    /\ i >= 2
    /\ StartsWith(Strip(lines[i - 1]), <<guidance_marker>>)
    /\ current_req # NoReq
    /\ current_req.guidance = Tail(Strip(lines[i - 1]))
    /\ current_req.guidance # <<>>
    /\ current_req.text = <<"mot">>
    /\ current_req.tests = <<>>

\* ====================================================================
\* The inline test extractor on one line
\* ====================================================================

\* what a line is made of: narrative, a bullet without verb, spans with a
\* verb that are short, truncated, complete, a complete question, in lower
\* case, of another verb, or all boilerplate behind the verb
SegmentVocab ==
    { <<"mot">>,
      <<"BUL", "mot">>,
      <<"BUL", "Examiner", "z">>,
      <<"BUL", "Examiner", "configuration">>,
      <<"BUL", "Examiner", "configuration", "systemes.">>,
      <<"BUL", "Examiner", "configuration", "systemes.", "quoi?">>,
      <<"BUL", "examiner", "configuration", "systemes.">>,
      <<"BUL", "Observer", "configuration", "systemes.">>,
      <<"BUL", "Examiner", "EnPlace", "Pas", "EnPlace">> }

RECURSIVE Flatten(_)
Flatten(ss) == IF ss = <<>> THEN <<>> ELSE Head(ss) \o Flatten(Tail(ss))

InlineLines == {Flatten(ss) : ss \in SeqsUpTo(SegmentVocab, MaxSegments)} \ {<<>>}

\* the lines after it: text without and with a final dot, a blank line, a
\* number line, a marker line
AheadVocab ==
    { <<"mot", "mot">>, <<"systemes.">>, <<>>, <<"1.2", "mot">>, <<"Conseils", "configuration">> }

\* the tests the record has before the call
TestsBefore == { <<>>, << <<"Examiner", "configuration", "systemes.">> >> }

InitInline ==
    /\ pc = "inline"
    /\ \E line \in InlineLines, ahead \in SeqsUpTo(AheadVocab, MaxAhead) :
           lines = <<line>> \o ahead
    /\ i = 1
    /\ \E tests \in TestsBefore :
           current_req = [req_num |-> "1.1", text |-> <<"mot">>, tests |-> tests, guidance |-> <<>>]
    /\ requirements = <<>>
    /\ ret = <<>>
    /\ IdleExtractor /\ IdleBatch /\ IdleCmp

\* the extractor returned r = [remaining, tests, processed]
ExtractorReturned(call, r) ==
    /\ history' = Append(history, [call |-> call, remaining |-> r.remaining,
                                   tests |-> r.tests, processed |-> r.processed])
    /\ UNCHANGED <<pc, ret, pdf, self_requirements, instances, parseVars, batchVars, cmpVars>>

\* _extract_tests_from_text_line(line, current_req)
ExtractFromLine ==
    /\ pc = "inline"
    /\ history = <<>>
    /\ ExtractorReturned("single", _extract_tests_from_text_line(lines[i], current_req.tests))

\* _extract_tests_from_text_line_multiline(line, current_req, all_lines, current_index)
ExtractMultiline ==
    /\ pc = "inline"
    /\ history = <<>>
    /\ ExtractorReturned("multiline",
           _extract_tests_from_text_line_multiline(lines[i], current_req.tests, lines, i))

NextInline == ExtractFromLine \/ ExtractMultiline

SpecInline == InitInline /\ [][NextInline]_vars


\* ------------------------------------------- spans of the inline extractor

\* the last bullet at or before position k of s, 0 when there is none
LastBullet(s, k) ==
    LET bullets == {p \in 1..k : s[p] = "BUL"}
    IN  IF bullets = {} THEN 0 ELSE CHOOSE p \in bullets : \A q \in bullets : q <= p

\* the token is one of the verbs of the indicators, in any case
IsVerb(t) == \E v \in 1..Len(test_verbs) : Lower(t) = Lower(test_verbs[v])

\* a span starts at the bullet at p: the bullet is followed by a verb
VerbSpanAt(s, p) == p >= 1 /\ p < Len(s) /\ s[p] = "BUL" /\ IsVerb(s[p + 1])

\* the span goes up to the token before the next bullet
SpanEnd(s, p) ==
    LET later == {q \in (p + 1)..Len(s) : s[q] = "BUL"}
    IN  IF later = {} THEN Len(s) ELSE (CHOOSE q \in later : \A r \in later : q <= r) - 1

\* the span without its bullet
SpanText(s, p) == SubSeq(s, p + 1, SpanEnd(s, p))

\* the span looks cut off: "len(test_text) < 30 or not test_text.endswith('.')"
LooksCutOff(t) == StrLen(t) < 30 \/ ~EndsWithDot(t)

\* the look-ahead ends at line j: it is a stop line of test capture, or it
\* ends a sentence
EndsLookAhead(ls, j) ==
    Strip(ls[j]) # <<>> /\ (StopsTest(Strip(ls[j])) \/ EndsSentence(Strip(ls[j])))

\* the last line the look-ahead after line k absorbs, k when it absorbs none
LastAbsorbed(ls, k) ==
    LET ends == {j \in (k + 1)..Len(ls) : EndsLookAhead(ls, j)}
        first == IF ends = {} THEN Len(ls) + 1
                 ELSE CHOOSE j \in ends : \A m \in ends : j <= m
        upTo == IF first <= Len(ls) /\ ~StopsTest(Strip(ls[first])) THEN first ELSE first - 1
        taken == {j \in (k + 1)..upTo : Strip(ls[j]) # <<>>}
    IN  IF taken = {} THEN k ELSE CHOOSE j \in taken : \A m \in taken : m <= j

\* the test a span becomes: extended by the look-ahead in the multi-line
\* extractor when it looks cut off
FullTest(t, call) ==
    IF call = "multiline" /\ LooksCutOff(t)
    THEN t \o Joined(lines, i + 1, LastAbsorbed(lines, i))
    ELSE t

\* the cleaned test has more than 10 characters
Significant(t, call) == StrLen(_clean_test_text(FullTest(t, call))) > 10

\* the tokens of s[k..] that are in no span the predicate drops
RECURSIVE WithoutSpans(_, _, _, _)
WithoutSpans(s, k, call, onlySignificant) ==
    IF k > Len(s) THEN <<>>
    ELSE (IF /\ VerbSpanAt(s, LastBullet(s, k))
             /\ (onlySignificant => Significant(SpanText(s, LastBullet(s, k)), call))
          THEN <<>> ELSE <<s[k]>>)
         \o WithoutSpans(s, k + 1, call, onlySignificant)

\* C22 as the specification states it: every span of a bullet and a verb is
\* taken out of the line, whether or not it became a test.
C22_EverySpanRemoved ==
    \A n \in 1..Len(history) :
        history[n].remaining = WithoutSpans(lines[i], 1, history[n].call, FALSE)

\* what the extractors do: a span of a bullet and a verb is taken out of the
\* line exactly when its cleaned test has more than 10 characters, also when
\* that test is in tests already; a span with a shorter test stays
SignificantSpansRemoved ==
    \A n \in 1..Len(history) :
        history[n].remaining = WithoutSpans(lines[i], 1, history[n].call, TRUE)


\* ------------------------------------------------ the look-ahead of a span

\* the spans of a bullet and a verb of line s, as the positions of their bullets
VerbSpans(s) == {p \in 1..Len(s) : VerbSpanAt(s, p)}

\* the cursor the multi-line extractor returns when the spans the predicate
\* holds of are the ones it extends
CursorWhenExtending(s, extends(_)) ==
    IF \E p \in VerbSpans(s) : extends(SpanText(s, p))
    THEN LastAbsorbed(lines, i)
    ELSE i

\* a span is truncated: shorter than 30 characters, or not ending in '.',
\* '!' or '?'
Truncated(t) == StrLen(t) < CompleteLen \/ ~EndsSentence(t)

\* C23 as the specification states it: the multi-line extractor extends a
\* span exactly when it is truncated (shorter than 30 characters or not
\* ending in '.', '!' or '?'); the look-ahead absorbs the non-blank lines up
\* to a stop line of test capture (left out) or a line ending a sentence
\* (taken in), and the cursor it returns is the last absorbed line; without
\* a truncated span no line is consumed and the cursor is unchanged.
C23_ExtendedWhenTruncated ==
    \A n \in 1..Len(history) :
        history[n].call = "multiline"
            => history[n].processed = CursorWhenExtending(lines[i], Truncated)

\* what the extractor does: a span is extended when it is shorter than 30
\* characters or does not end in '.', so a complete question is extended too
ExtendedWhenCutOff ==
    \A n \in 1..Len(history) :
        history[n].call = "multiline"
            => history[n].processed = CursorWhenExtending(lines[i], LooksCutOff)


\* ====================================================================
\* Narrative lines of an open requirement
\* ====================================================================

\* a number line, narrative lines that are new, known already, or too short,
\* a narrative line ending in a cut-off test, a line that completes it, and
\* one line of every other case
NarrativeVocab ==
    { <<"1.1", "mot">>,
      <<"configuration">>,
      <<"mot">>,
      <<"z">>,
      <<"configuration", "BUL", "Examiner", "configuration">>,
      <<"systemes.">>,
      <<"BUL", "Examiner", "configuration", "systemes.">>,
      <<"NotesApp", "mot">>,
      <<"Conseils", "configuration">>,
      <<"Page3">>,
      <<>> }

InitNarrative ==
    /\ pc = "parse"
    /\ lines \in SeqsUpTo(NarrativeVocab, MaxLines)
    /\ i = 1
    /\ current_req = NoReq
    /\ requirements = <<>>
    /\ ret = <<>>
    /\ IdleExtractor /\ IdleBatch /\ IdleCmp

SpecNarrative == InitNarrative /\ [][NextParse]_vars

\* the loop stands on a narrative line of an open record
OnNarrativeLine == OnOtherLine /\ FirstCase(CurrentLine) = "narrative"

\* what the inline extraction returns for the line under the cursor
InlineExtraction ==
    _extract_tests_from_text_line_multiline(CurrentLine, current_req.tests, lines, i)

\* the text with the remainder r of the line appended when r is not in the
\* text already and has more than 2 characters
WithRemainder(text, r) ==
    IF ~IsSubstring(r, text) /\ StrLen(r) >= MinTextLen THEN text \o r ELSE text

RemainderAppendedUnlessLinesConsumed ==
    [][OnNarrativeLine =>
           current_req'.text =
               IF InlineExtraction.processed > i
               THEN current_req.text
               ELSE WithRemainder(current_req.text, InlineExtraction.remaining)]_vars


\* ====================================================================
\* The finalizer on one record
\* ====================================================================

\* tests as they stand in a record before it is finalized: complete, of 10
\* characters, with the instruction of the answer column behind them
FinalTestVocab ==
    { <<"Examiner", "configuration", "systemes.">>,
      <<"Observer", "configuration", "systemes.">>,
      <<"Examiner", "z">>,
      <<"Examiner", "configuration", "systemes.", "Cocher">>,
      <<"Examiner", "z", "Cocher">> }

\* texts: without a test, with a test left in them, with two
FinalTextVocab ==
    { <<"mot">>,
      <<"mot", "BUL", "Examiner", "configuration", "systemes.">>,
      <<"mot", "BUL", "Examiner", "z">>,
      <<"mot", "BUL", "Examiner", "configuration", "systemes.",
        "BUL", "Observer", "configuration", "systemes.">> }

InitFinalize ==
    /\ pc = "finalize"
    /\ \E text \in FinalTextVocab, tests \in SeqsUpTo(FinalTestVocab, MaxTests) :
           current_req = [req_num |-> "1.1", text |-> text, tests |-> tests, guidance |-> <<>>]
    /\ lines = <<>>
    /\ i = 0
    /\ requirements = <<>>
    /\ ret = <<>>
    /\ IdleExtractor /\ IdleBatch /\ IdleCmp

\* _finalize_requirement(req); the record it leaves is kept in ret
Finalize ==
    /\ pc = "finalize"
    /\ pc' = "finalized"
    /\ ret' = <<_finalize_requirement(current_req)>>
    /\ UNCHANGED <<lines, i, current_req, requirements, extractorVars, batchVars, cmpVars>>

SpecFinalize == InitFinalize /\ [][Finalize]_vars

\* the tests of the record when the loop of the finalizer starts: the ones
\* it had and the ones the residual extraction found in its text
TestsBeforeCleaning == _extract_tests_from_text_line(current_req.text, current_req.tests).tests

\* the entries of the list, each cleaned of the answer artefacts
CleanedEntries(tests) == [k \in 1..Len(tests) |-> _remove_response_artifacts(tests[k])]

\* the first position of x in list
FirstIndexOf(x, list) == CHOOSE k \in 1..Len(list) : list[k] = x /\ \A m \in 1..(k - 1) : list[m] # x

\* r has no two equal entries, only entries of more than 10 characters, all
\* of them entries of list, in the order of their first occurrence in list
DistinctSignificantInOrder(r, list) ==
    /\ \A a, b \in 1..Len(r) : a # b => r[a] # r[b]
    /\ \A a \in 1..Len(r) : StrLen(r[a]) > SignificantLen /\ InList(r[a], list)
    /\ \A a, b \in 1..Len(r) : a < b => FirstIndexOf(r[a], list) < FirstIndexOf(r[b], list)

\* C25: the tests of a finalized record have no two equal entries, every
\* entry has more than 10 characters, and the entries stand in the order of
\* their first occurrence in the list before de-duplication, in which the
\* tests captured during parsing come before the ones the finalizer found
\* in the text.
C25_FinalTests ==
    pc = "finalized" =>
        /\ DistinctSignificantInOrder(ret[1].tests, CleanedEntries(TestsBeforeCleaning))
        /\ IsPrefix(current_req.tests, TestsBeforeCleaning)

\* a record with a test of 10 characters, a test that equals a later one
\* once cleaned, and a test left in its text: two tests remain, the captured
\* one before the residual one
C25_Witness ==
    /\ pc = "finalized"
    /\ current_req.tests = << <<"Examiner", "z", "Cocher">>,
                              <<"Examiner", "configuration", "systemes.", "Cocher">> >>
    /\ Len(TestsBeforeCleaning) = 4
    /\ ret[1].tests = << <<"Examiner", "configuration", "systemes.">>,
                         <<"Observer", "configuration", "systemes.">> >>


\* ------------------------------------------------------------ termination

\* the while loop of parse_requirements runs on: the call does not stop in
\* the middle of the loop. This is weak fairness of NextParse, written out
\* with what its enabling condition comes to: a step of NextParse can be
\* made exactly while pc = "parse"
LoopRunsOn == []<>(pc # "parse") \/ []<><<NextParse>>_vars

SpecNarrativeFair == SpecNarrative /\ LoopRunsOn

\* the inline extension of the narrative line under the cursor ends on the
\* line it started from or on a later line
ExtensionWithinLines == OnNarrativeLine => InlineExtraction.processed \in i..Len(lines)

\* C26: parse_requirements terminates on every finite sequence of lines:
\* each iteration of the while loop moves the cursor forward, the look-ahead
\* loops of test capture, guidance capture and inline extension end inside
\* the lines and never leave the cursor before the line they started from,
\* and the call returns.
C26_Terminates ==
    /\ [][(pc = "parse" /\ i <= Len(lines))
              => (i' > i /\ i' <= Len(lines) + 1 /\ ExtensionWithinLines)]_vars
    /\ <>(pc = "done")

\* the call returned after an inline extension took the line after the
\* narrative line and the cursor went on from there to the end
C26_Witness ==
    /\ pc = "done"
    /\ Len(lines) >= 3
    /\ i = Len(lines) + 1
    /\ NumberOfLine(lines, 1) # ""
    /\ Strip(lines[2]) = <<"configuration", "BUL", "Examiner", "configuration">>
    /\ Strip(lines[3]) = <<"systemes.">>
    /\ Len(ret) = 1
    /\ ret[1].tests = << <<"Examiner", "configuration", "systemes.">> >>


\* ----------------------------------------------- no header is swallowed

\* the numbers of the requirement-number lines of ls
NumbersOfLines(ls) == {NumberOfLine(ls, k) : k \in 1..Len(ls)} \ {""}

\* the numbers of the records of reqs
NumbersOfRecords(reqs) == {reqs[k].req_num : k \in 1..Len(reqs)}

\* the lines the step leaves behind without an iteration of their own: the
\* ones between the line under the cursor and the line the cursor goes to
PassedOver == {k \in (i + 1)..(i' - 1) : k <= Len(lines)}

\* C27: no requirement header is swallowed. The numbers of the records
\* returned are the numbers of the requirement-number lines of the input,
\* and no iteration takes the cursor past a requirement-number line: the
\* lines a capture or an inline extension absorbs are no such lines.
C27_NoHeaderSwallowed ==
    /\ [](pc = "done" => NumbersOfRecords(ret) = NumbersOfLines(lines))
    /\ [][(pc = "parse" /\ i <= Len(lines))
              => \A k \in PassedOver : NumberOfLine(lines, k) = ""]_vars

\* a requirement-number line right after a marker line ended the guidance
\* capture and opened the second record
C27_Witness ==
    /\ pc = "done"
    /\ Len(lines) >= 3
    /\ NumberOfLine(lines, 1) = "1.1"
    /\ StartsWith(Strip(lines[2]), <<guidance_marker>>)
    /\ NumberOfLine(lines, 3) = "1.2"
    /\ NumbersOfRecords(ret) = {"1.1", "1.2"}


\* ====================================================================
\* The pages read_pdf_content reads
\* ====================================================================

\* pages: the anchor, a later requirement, a number out of range, narrative
\* only, nothing
ReadPageVocab ==
    { << <<"1.1.1", "mot">> >>,
      << <<"1.2", "mot">> >>,
      << <<"13.1", "mot">> >>,
      << <<"mot", "mot">>, <<"7", "mot">> >>,
      <<>> }

ReadPdfs == [lead : ScanLeads, pages : SeqsUpTo(ReadPageVocab, MaxPages)]

InitRead ==
    /\ pc = "read"
    /\ pdf \in ReadPdfs
    /\ self_requirements = <<>>
    /\ history = <<>>
    /\ instances = <<>>
    /\ ret = <<>>
    /\ IdleParse /\ IdleBatch /\ IdleCmp

\* extract_all_requirements on the document under the reading conditions
\* fail, with the text its read_pdf_content returned
ReadAndExtract ==
    /\ pc = "read"
    /\ Len(history) < MaxRuns
    /\ \E fail \in Failures(pdf) :
           /\ history' = Append(history,
                  [fail |-> fail,
                   raw_text |-> read_pdf_content(pdf, fail),
                   ret |-> extract_all_requirements(self_requirements, pdf, fail).ret])
           /\ ret' = extract_all_requirements(self_requirements, pdf, fail).ret
    /\ UNCHANGED <<pc, pdf, self_requirements, instances, parseVars, batchVars, cmpVars>>

SpecRead == InitRead /\ [][ReadAndExtract]_vars

\* the last page of the range: the detected end page when it is behind the
\* start page, else the last page of the document or the 100th page after
\* the start page, whichever comes first
LastOfRange(doc, start, end) ==
    IF end > start THEN end ELSE Min(NumPages(doc) - 1, start + EndWindow)

\* the pages of the range that the document has
PagesInRange(doc, start, end) ==
    {p \in start..LastOfRange(doc, start, end) : p < NumPages(doc)}

\* the texts of the pages a..b, each followed by a line break
RECURSIVE PagesText(_, _, _)
PagesText(doc, a, b) ==
    IF a > b THEN <<>>
    ELSE JoinLines(PageLines(doc, a)) \o <<"NL">> \o PagesText(doc, a + 1, b)

\* the text of the pages of S, in ascending order
TextOfPages(doc, S) ==
    IF S = {} THEN <<>>
    ELSE PagesText(doc, CHOOSE a \in S : \A p \in S : a <= p,
                        CHOOSE b \in S : \A p \in S : p <= b)

\* what read_pdf_content returns when the range is start..end: the text of
\* the pages of the range, nothing when the file or a page of the range
\* cannot be read
TextOfRange(doc, fail, start, end) ==
    IF fail.kind = "open" \/ \E p \in PagesInRange(doc, start, end) : FailsAtPage(fail, p)
    THEN <<>>
    ELSE TextOfPages(doc, PagesInRange(doc, start, end))

\* C28: read_pdf_content returns the texts of exactly the pages p with
\* start <= p <= end' and p < N, N the number of pages, start the detected
\* start page and end' the detected end page when it is behind start, else
\* min(N - 1, start + 100); no page of index N or more is read; when start
\* is N or more the text is empty and extract_all_requirements returns the
\* empty list.
C28_PagesRead ==
    \A n \in 1..Len(history) :
        LET fail == history[n].fail
            start == find_start_page(pdf, fail)
        IN  /\ history[n].raw_text =
                   TextOfRange(pdf, fail, start, find_end_page(pdf, fail))
            /\ (start >= NumPages(pdf) => history[n].raw_text = <<>> /\ history[n].ret = <<>>)

\* a document of two pages with the anchor on the first and no later
\* requirement: the end page is not behind the start page and both pages
\* are read; when the first page cannot be read the start page is the
\* fallback, behind the document, and nothing is read
C28_Witness ==
    /\ Len(history) = 2
    /\ NumPages(pdf) = 2
    /\ history[1].fail = NoFailure
    /\ find_start_page(pdf, NoFailure) = 0
    /\ find_end_page(pdf, NoFailure) = 0
    /\ history[1].raw_text = PagesText(pdf, 0, 1)
    /\ history[1].ret # <<>>
    /\ history[2].fail = PageFails(0)
    /\ find_start_page(pdf, PageFails(0)) >= NumPages(pdf)
    /\ history[2].raw_text = <<>>
    /\ history[2].ret = <<>>


\* ====================================================================
\* The sort key of the exports against the comparator
\* ====================================================================

\* components: zero, one digit, two digits
KeyComponents == {<<0>>, <<2>>, <<1, 0>>}

\* dotted numbers of one to five components
KeyIds == UNION {[1..d -> KeyComponents] : d \in 1..MaxDepth}

InitKeys ==
    /\ pc = "keys"
    /\ arg1 \in KeyIds
    /\ arg2 \in KeyIds
    /\ higher = FALSE
    /\ ret = <<>>
    /\ IdleParse /\ IdleExtractor /\ IdleBatch /\ IdleChanges

\* [int(x) for x in req_num.split('.')] of a number given by its components
IntsOf(id) == [k \in 1..Len(id) |-> ToInt(id[k])]

\* sort_key of both numbers, as sorted() of save_to_json and save_to_csv
\* computes them, and _is_higher_requirement on the same two numbers
KeysAndCompare ==
    /\ pc = "keys"
    /\ ret' = <<PadToFour(IntsOf(arg1)), PadToFour(IntsOf(arg2))>>
    /\ higher' = _is_higher_requirement(arg1, arg2)
    /\ pc' = "keyed"
    /\ UNCHANGED <<arg1, arg2, changeVars, parseVars, extractorVars, batchVars>>

SpecKeys == InitKeys /\ [][KeysAndCompare]_vars

\* C29 as the specification states it: the sort key of the exports orders
\* every pair of numbers as _is_higher_requirement does, also numbers of
\* more than four components and numbers that differ by trailing zero
\* components only: the key of one is greater than the key of the other
\* exactly when the one compares higher.
C29_KeyOrdersAsComparator ==
    pc = "keyed" => (ListGreater(ret[1], ret[2]) <=> higher)

\* what the code has: the two agree on numbers of at most four components
KeyOrdersAsComparatorUpToFour ==
    (pc = "keyed" /\ Len(arg1) <= 4 /\ Len(arg2) <= 4)
        => (ListGreater(ret[1], ret[2]) <=> higher)


\* ====================================================================
\* Change detection: compare_versions and should_download
\* ====================================================================
\* A document is [name, version, category, available_languages]; name and
\* category are sequences of pieces of text, "_" the underscore.

\* f"{doc['name']}_{doc['category']}"
KeyOf(doc) == doc.name \o <<"_">> \o doc.category

\* a row of previous_data as previous_dict keeps it:
\* row.get('available_languages', 'EN')
PreviousEntry(row, languages_column) ==
    [name |-> row.name, version |-> row.version, category |-> row.category,
     available_languages |-> IF languages_column THEN row.available_languages ELSE "EN"]

\* d[key] = value on a dict kept as the sequence of its items: a key that is
\* there keeps its place and takes the value
DictSet(d, key, value) ==
    IF \E n \in 1..Len(d) : d[n].key = key
    THEN [n \in 1..Len(d) |-> IF d[n].key = key THEN [key |-> key, value |-> value] ELSE d[n]]
    ELSE Append(d, [key |-> key, value |-> value])

HasKey(d, key) == \E n \in 1..Len(d) : d[n].key = key

DictGet(d, key) == (CHOOSE n \in 1..Len(d) : d[n].key = key)

\* "for _, row in previous_data.iterrows(): previous_dict[key] = {...}"
RECURSIVE previous_dict(_, _, _, _)
previous_dict(rows, languages_column, k, d) ==
    IF k > Len(rows) THEN d
    ELSE previous_dict(rows, languages_column, k + 1,
             DictSet(d, KeyOf(rows[k]), PreviousEntry(rows[k], languages_column)))

\* "for doc in self.documents: current_dict[key] = doc"
RECURSIVE current_dict(_, _, _)
current_dict(docs, k, d) ==
    IF k > Len(docs) THEN d
    ELSE current_dict(docs, k + 1, DictSet(d, KeyOf(docs[k]), docs[k]))

\* "version_changed or languages_changed"
Changed(doc, prev_doc) ==
    \/ doc.version # prev_doc.version
    \/ doc.available_languages # prev_doc.available_languages

change_info(doc, prev_doc) ==
    [name |-> doc.name, category |-> doc.category,
     old_version |-> prev_doc.version, new_version |-> doc.version,
     old_languages |-> prev_doc.available_languages,
     new_languages |-> doc.available_languages]

\* the three loops over current_dict and the loop over previous_dict, from
\* item k on
RECURSIVE NewDocuments(_, _, _)
NewDocuments(cur, prev, k) ==
    IF k > Len(cur) THEN <<>>
    ELSE (IF HasKey(prev, cur[k].key) THEN <<>> ELSE <<cur[k].value>>)
         \o NewDocuments(cur, prev, k + 1)

RECURSIVE UpdatedVersions(_, _, _)
UpdatedVersions(cur, prev, k) ==
    IF k > Len(cur) THEN <<>>
    ELSE (IF /\ HasKey(prev, cur[k].key)
             /\ Changed(cur[k].value, prev[DictGet(prev, cur[k].key)].value)
          THEN <<change_info(cur[k].value, prev[DictGet(prev, cur[k].key)].value)>>
          ELSE <<>>)
         \o UpdatedVersions(cur, prev, k + 1)

RECURSIVE UnchangedDocuments(_, _, _)
UnchangedDocuments(cur, prev, k) ==
    IF k > Len(cur) THEN <<>>
    ELSE (IF /\ HasKey(prev, cur[k].key)
             /\ ~Changed(cur[k].value, prev[DictGet(prev, cur[k].key)].value)
          THEN <<cur[k].value>>
          ELSE <<>>)
         \o UnchangedDocuments(cur, prev, k + 1)

RECURSIVE RemovedDocuments(_, _, _)
RemovedDocuments(cur, prev, k) ==
    IF k > Len(prev) THEN <<>>
    ELSE (IF HasKey(cur, prev[k].key) THEN <<>> ELSE <<prev[k].value>>)
         \o RemovedDocuments(cur, prev, k + 1)

\* the changes between the two dictionaries
ChangesBetween(cur, prev) ==
    [new_documents |-> NewDocuments(cur, prev, 1),
     updated_versions |-> UpdatedVersions(cur, prev, 1),
     removed_documents |-> RemovedDocuments(cur, prev, 1),
     unchanged_documents |-> UnchangedDocuments(cur, prev, 1)]

\* compare_versions(previous_data) on an instance with self.documents = docs
compare_versions(docs, previous) ==
    IF ~previous.present
    THEN [NoChanges EXCEPT !.new_documents = docs]
    ELSE ChangesBetween(current_dict(docs, 1, <<>>),
                        previous_dict(previous.rows, previous.languages_column, 1, <<>>))

\* should_download(changes)
should_download(ch) == Len(ch.new_documents) + Len(ch.updated_versions) > 0

\* the documents of a run: one document in two versions and with two sets of
\* languages, the same name in another category, and two documents whose
\* names and categories differ but join to the same key
DocVocab ==
    { [name |-> <<"A">>, version |-> "v1", category |-> <<"AOC">>, available_languages |-> "EN"],
      [name |-> <<"A">>, version |-> "v2", category |-> <<"AOC">>, available_languages |-> "EN"],
      [name |-> <<"A">>, version |-> "v1", category |-> <<"AOC">>, available_languages |-> "EN, FR"],
      [name |-> <<"A">>, version |-> "v1", category |-> <<"PCI">>, available_languages |-> "EN"],
      [name |-> <<"A", "_", "PCI">>, version |-> "v1", category |-> <<"AOC">>,
       available_languages |-> "EN"],
      [name |-> <<"A">>, version |-> "v1", category |-> <<"PCI", "_", "AOC">>,
       available_languages |-> "EN"] }

\* previous_data: None, or the rows of a file with or without the column
\* available_languages
PreviousData ==
    {NoPreviousData}
        \cup [present : {TRUE}, languages_column : BOOLEAN, rows : SeqsUpTo(DocVocab, MaxDocs)]

InitChanges ==
    /\ pc = "versions"
    /\ documents \in SeqsUpTo(DocVocab, MaxDocs)
    /\ previous_data \in PreviousData
    /\ changes = NoChanges
    /\ decision = FALSE
    /\ arg1 = <<>> /\ arg2 = <<>> /\ higher = FALSE
    /\ ret = <<>>
    /\ IdleParse /\ IdleExtractor /\ IdleBatch

\* changes = self.change_detector.compare_versions(previous_data)
CompareVersions ==
    /\ pc = "versions"
    /\ changes' = compare_versions(documents, previous_data)
    /\ pc' = "classified"
    /\ UNCHANGED <<documents, previous_data, decision, arg1, arg2, higher, ret,
                   parseVars, extractorVars, batchVars>>

\* should_download = self.should_download(changes)
ShouldDownload ==
    /\ pc = "classified"
    /\ decision' = should_download(changes)
    /\ pc' = "decided"
    /\ UNCHANGED <<documents, previous_data, changes, arg1, arg2, higher, ret,
                   parseVars, extractorVars, batchVars>>

NextChanges == CompareVersions \/ ShouldDownload

SpecChanges == InitChanges /\ [][NextChanges]_vars

\* the same document: the same name in the same category
SameDocument(d, r) == d.name = r.name /\ d.category = r.category

\* the document is known from the last run
Known(d) == \E n \in 1..Len(previous_data.rows) : SameDocument(d, previous_data.rows[n])

\* a row of the last run for the document with the same version and languages
KnownAsItIs(d) ==
    \E n \in 1..Len(previous_data.rows) :
        /\ SameDocument(d, previous_data.rows[n])
        /\ ~Changed(d, PreviousEntry(previous_data.rows[n], previous_data.languages_column))

\* updated_versions has the entry of the document
InUpdated(d) ==
    \E n \in 1..Len(changes.updated_versions) :
        /\ SameDocument(d, changes.updated_versions[n])
        /\ changes.updated_versions[n].new_version = d.version
        /\ changes.updated_versions[n].new_languages = d.available_languages

\* the document is in the list it belongs to and in no other
ClassifiedOnce(d) ==
    IF ~Known(d)
    THEN InList(d, changes.new_documents) /\ ~InUpdated(d)
             /\ ~InList(d, changes.unchanged_documents)
    ELSE IF KnownAsItIs(d)
    THEN InList(d, changes.unchanged_documents) /\ ~InUpdated(d)
             /\ ~InList(d, changes.new_documents)
    ELSE InUpdated(d) /\ ~InList(d, changes.new_documents)
             /\ ~InList(d, changes.unchanged_documents)

\* removed_documents holds the documents of the last run that are gone
RemovedAreTheGone ==
    \A n \in 1..Len(previous_data.rows) :
        (\E m \in 1..Len(changes.removed_documents) :
             SameDocument(previous_data.rows[n], changes.removed_documents[m]))
        <=> ~\E k \in 1..Len(documents) : SameDocument(previous_data.rows[n], documents[k])

\* the classification as stated, with the decision taken from it
ClassifiedAsStated ==
    /\ (pc # "versions" /\ previous_data.present) =>
           /\ \A k \in 1..Len(documents) : ClassifiedOnce(documents[k])
           /\ Len(changes.new_documents) + Len(changes.updated_versions)
                  + Len(changes.unchanged_documents) = Len(documents)
           /\ RemovedAreTheGone
    /\ (pc # "versions" /\ ~previous_data.present) =>
           changes = [NoChanges EXCEPT !.new_documents = documents]
    /\ pc = "decided" =>
           (decision <=> (changes.new_documents # <<>> \/ changes.updated_versions # <<>>))

\* C30 as the specification states it: compare_versions classifies by name
\* and category. With previous data every current document is in exactly one
\* of new_documents (not known before), updated_versions (known, version or
\* languages differ) and unchanged_documents (known, both equal), and
\* removed_documents holds the previous documents that are gone; without
\* previous data every current document is new and the other lists are
\* empty. should_download is true exactly when new_documents or
\* updated_versions is not empty.
C30_EveryDocumentClassified == ClassifiedAsStated

\* no two of the documents and rows at hand have the same key, unless they
\* are a document and a row of the same name and category
KeysTellDocumentsApart ==
    /\ \A a, b \in 1..Len(documents) : a # b => KeyOf(documents[a]) # KeyOf(documents[b])
    /\ \A a, b \in 1..Len(previous_data.rows) :
           a # b => KeyOf(previous_data.rows[a]) # KeyOf(previous_data.rows[b])
    /\ \A a \in 1..Len(documents), b \in 1..Len(previous_data.rows) :
           KeyOf(documents[a]) = KeyOf(previous_data.rows[b])
               => SameDocument(documents[a], previous_data.rows[b])

\* what the code has: the classification is the stated one when the keys
\* tell the documents apart
ClassifiedWhenKeysTellApart == KeysTellDocumentsApart => ClassifiedAsStated

====
